---- MODULE Spec2Model ----
(***************************************************************************)
(* package-detector: the unused-package detector (src/src/analyzer.ts),    *)
(* the usage resolver and its caches (src/src/utils.ts), the reporter      *)
(* (src/src/reporter.ts) and the CLI entry point (bin/index.ts).           *)
(*                                                                         *)
(* Strings are sequences of one-character strings, so that startsWith,     *)
(* regular-expression tests and equality are computed character by         *)
(* character as the code computes them.                                    *)
(***************************************************************************)
EXTENDS Naturals, Sequences, FiniteSets, TLC

VARIABLES
    manifest,           \* package.json on disk
    fs,                 \* source files on disk: path -> [st, content]
    cwdOk,              \* FALSE once the working directory has been removed
    importCache,        \* utils.ts:7   Map<path, imports>
    packageUsageCache,  \* utils.ts:8   Map<"name:len", boolean>
    io,                 \* file reads and lookups made since the caches were last cleared
    results,            \* reporter.ts:12  Reporter.results
    out,                \* console messages of the current top-level call
    pc,                 \* position inside detectUnusedPackages
    run,                \* locals of the current detectUnusedPackages run
    prev,               \* what the previous run produced (for comparison)
    runs,               \* detector runs made by this process
    call,               \* the last direct resolver call and what it returned
    calls,              \* resolver calls made since the caches were last empty
    mainPc,             \* position inside main()
    options,            \* parseArguments() result
    exitCode            \* process exit status ("running" until it ends)

vars == << manifest, fs, cwdOk, importCache, packageUsageCache, io, results, out,
           pc, run, prev, runs, call, calls, mainPc, options, exitCode >>

-----------------------------------------------------------------------------
(* Strings *)

startsWith(s, pre) ==
    /\ Len(pre) <= Len(s)
    /\ SubSeq(s, 1, Len(pre)) = pre

\* Package names and import references used by the bounded inputs.
N_lo      == << "l", "o" >>
N_lo_x    == << "l", "o", "-", "x" >>
R_lo_sub  == << "l", "o", "/", "x" >>
N_a_b     == << "a", ".", "b" >>
R_a_b     == << "a", "-", "b" >>
N_s_n     == << "@", "s", "/", "n" >>
N_s_nx    == << "@", "s", "/", "n", "x" >>
R_s_n_sub == << "@", "s", "/", "n", "/", "x" >>
N_s_o     == << "@", "s", "/", "o" >>
R_rel     == << ".", "/", "u" >>
N_jest    == << "j", "e", "s", "t" >>
N_types_x == << "@", "t", "y", "p", "e", "s", "/", "x" >>
N_types_node == << "@", "t", "y", "p", "e", "s", "/", "n", "o", "d", "e" >>
N_types_jest == << "@", "t", "y", "p", "e", "s", "/", "j", "e", "s", "t" >>
N_types_star == << "@", "t", "y", "p", "e", "s", "/", "*" >>
N_typescript == << "t", "y", "p", "e", "s", "c", "r", "i", "p", "t" >>
N_ts_node == << "t", "s", "-", "n", "o", "d", "e" >>
N_ts_jest == << "t", "s", "-", "j", "e", "s", "t" >>
N_webpack == << "w", "e", "b", "p", "a", "c", "k" >>
N_rimraf  == << "r", "i", "m", "r", "a", "f" >>
TypesPrefix == << "@", "t", "y", "p", "e", "s", "/" >>

EmptyMap == [x \in {} |-> x]

-----------------------------------------------------------------------------
(* Regular expressions built by isPackageUsed (utils.ts:255-257).          *)
(* A pattern is anchored at the start (all three begin with ^), has a body *)
(* of tokens and may be anchored at the end.                               *)

\* The characters the replace() call escapes: /[.*+?^${}()|[\]\\]/g
RegExpSpecials ==
    { ".", "*", "+", "?", "^", "$", "{", "}", "(", ")", "|", "[", "]", "\\" }

\* One source character of a pattern: "\c" is the literal c, a bare "." is the
\* wildcard, any other bare character of the alphabet is itself.
EscapedToken(c) == [kind |-> "lit", ch |-> c]
RawToken(c) == IF c = "." THEN [kind |-> "any", ch |-> c]
               ELSE [kind |-> "lit", ch |-> c]

escapeRegExp_None(s) == [i \in 1..Len(s) |-> RawToken(s[i])]

escapeRegExp(s) ==
    [i \in 1..Len(s) |->
        IF s[i] \in RegExpSpecials THEN EscapedToken(s[i]) ELSE RawToken(s[i])]

TokenMatches(tok, c) == tok.kind = "any" \/ tok.ch = c

\* RegExp.prototype.test for a pattern "^body" or "^body$" ("$" without the
\* m flag matches at the end of the input only).
RegExpTest(pat, s) ==
    /\ pat.defined
    /\ Len(pat.body) <= Len(s)
    /\ \A i \in 1..Len(pat.body) : TokenMatches(pat.body[i], s[i])
    /\ pat.eol => Len(s) = Len(pat.body)

exactMatchPattern(packageName) ==
    [defined |-> TRUE, body |-> escapeRegExp(packageName), eol |-> TRUE]

prefixPattern_NoSlash(packageName) ==
    [defined |-> TRUE, body |-> escapeRegExp(packageName), eol |-> FALSE]

prefixPattern(packageName) ==
    [defined |-> TRUE,
     body |-> escapeRegExp(packageName) \o << RawToken("/") >>,
     eol |-> FALSE]

scopedPattern(packageName) ==
    [defined |-> startsWith(packageName, << "@" >>),
     body |-> escapeRegExp(packageName), eol |-> FALSE]

-----------------------------------------------------------------------------
(* Source files and the import extractor (utils.ts:136-169)                *)

Paths == { "a.ts", "b.js" }

\* The character classes of the two patterns of extractImports.
WhiteSpace == { " ", "\t", "\n", "\r" }                       \* \s
WordChars ==                                                  \* \w
    { "a", "b", "c", "d", "e", "f", "g", "h", "i", "j", "k", "l", "m", "n", "o", "p", "q", "r", "s", "t", "u", "v", "w", "x", "y", "z" }
    \cup { "A", "B", "C", "D", "E", "F", "G", "H", "I", "J", "K", "L", "M", "N", "O", "P", "Q", "R", "S", "T", "U", "V", "W", "X", "Y", "Z" }
    \cup { "0", "1", "2", "3", "4", "5", "6", "7", "8", "9", "_" }
\* The back quote, which a string of this notation cannot hold: one atom
\* stands for the character.
BackQuote == "backquote"
QuoteChars == { "'", "\"", BackQuote }

KwImport  == << "i", "m", "p", "o", "r", "t" >>
KwFrom    == << "f", "r", "o", "m" >>
KwAs      == << "a", "s" >>
KwRequire == << "r", "e", "q", "u", "i", "r", "e" >>

\* A statement of a source file: what it is (form, kind), the module path it
\* names and the characters it is written with.
Stmt(form, kind, path, text) ==
    [form |-> form, kind |-> kind, path |-> path, text |-> text]

Quoted(q, path) == << q >> \o path \o << q >>

\* import x from 'path'
ImportDefault(name, q, path) ==
    Stmt("import", "default", path,
         KwImport \o << " " >> \o name \o << " " >> \o KwFrom \o << " " >>
             \o Quoted(q, path))

\* import { a, b } from 'path', on one line or on several
ImportNamed(sep, q, path) ==
    Stmt("import", "named", path,
         KwImport \o << " ", "{", sep, "a", ",", sep, "b", sep, "}", " " >>
             \o KwFrom \o << " " >> \o Quoted(q, path))

\* import * as n from 'path'
ImportNamespace(name, q, path) ==
    Stmt("import", "namespace", path,
         KwImport \o << " ", "*", " " >> \o KwAs \o << " " >> \o name \o << " " >>
             \o KwFrom \o << " " >> \o Quoted(q, path))

\* import x, { a } from 'path'
ImportDefaultAndNamed(q, path) ==
    Stmt("import", "default and named", path,
         KwImport \o << " ", "x", ",", " ", "{", " ", "a", " ", "}", " " >>
             \o KwFrom \o << " " >> \o Quoted(q, path))

\* import 'path'
ImportBare(q, path) ==
    Stmt("import", "bare", path, KwImport \o << " " >> \o Quoted(q, path))

\* require('path'), with or without blanks around the parentheses
RequireLiteral(sp, q, path) ==
    Stmt("require", "literal", path,
         KwRequire \o sp \o << "(" >> \o sp \o Quoted(q, path) \o sp \o << ")" >>)

\* require(v), require('path', v) and import(v): no literal sole argument
RequireComputed ==
    Stmt("computed", "variable", << >>, KwRequire \o << "(", "v", ")" >>)
RequireTwoArguments(q, path) ==
    Stmt("computed", "two arguments", << >>,
         KwRequire \o << "(" >> \o Quoted(q, path) \o << ",", " ", "v", ")" >>)
ImportComputed ==
    Stmt("computed", "dynamic import", << >>, KwImport \o << "(", "v", ")" >>)

Import(path)  == ImportDefault(<< "x" >>, "'", path)
Require(path) == RequireLiteral(<< >>, "'", path)
Computed      == RequireComputed

File(content) == [st |-> "file", content |-> content]
Absent        == [st |-> "absent", content |-> << >>]
Unreadable    == [st |-> "unreadable", content |-> << >>]

\* Bounded inputs: the source files of the behaviours below.

\* Contents a source file is given between runs.
WriteContents ==
    { << >>,
      << Import(N_lo), Require(N_jest) >>,
      << Require(R_lo_sub), Computed, Import(N_s_nx), Import(N_types_x) >> }

WriteFiles == { Absent, Unreadable } \cup { File(c) : c \in WriteContents }

\* Module paths and files of the direct resolver calls
UsageRefs ==
    { N_lo, N_lo_x, R_lo_sub, N_a_b, R_a_b, N_s_n, N_s_nx, R_s_n_sub, N_s_o, R_rel }

UsageFiles ==
    { Absent, Unreadable, File(<< >>), File(<< Computed >>) }
    \cup { File(<< Import(r) >>) : r \in UsageRefs }
    \cup { File(<< Require(R_rel), Computed, Require(r) >>) : r \in { N_lo, N_s_n } }

SecondFiles ==
    { Absent, File(<< >>), File(<< Require(N_lo) >>), File(<< Import(N_s_nx) >>),
      File(<< Import(R_s_n_sub), Import(N_a_b) >>) }

\* Files written in every statement form
ExtractStmts ==
    { ImportDefault(n, q, N_lo) : n \in { << "x" >>, << "$" >> }, q \in QuoteChars }
    \cup { ImportNamed(sep, q, N_s_n) : sep \in { " ", "\n" }, q \in QuoteChars }
    \cup { ImportNamespace(<< "n" >>, q, R_rel) : q \in QuoteChars }
    \cup { RequireLiteral(sp, q, R_lo_sub) : sp \in { << >>, << " " >> }, q \in QuoteChars }
    \cup { ImportDefaultAndNamed("'", N_lo), ImportBare("'", R_lo_sub),
           RequireComputed, RequireTwoArguments("'", N_lo), ImportComputed }

ExtractFiles ==
    { File(<< s, t >>) : s \in ExtractStmts, t \in { RequireComputed, Require(N_jest) } }

\* Every content a source file has in some behaviour.
Sources ==
    WriteContents
    \cup { f.content : f \in UsageFiles \cup SecondFiles \cup ExtractFiles }
    \cup { << Import(N_lo) >>, << Require(N_lo) >> }

\* The text of a file: its statements, one per line.
RECURSIVE FileText(_)
FileText(stmts) ==
    IF stmts = << >> THEN << >>
    ELSE Head(stmts).text \o << ";", "\n" >> \o FileText(Tail(stmts))

\* Matching the two patterns at one position of a text.  Every quantifier of
\* the two patterns is followed by something its own class excludes, so the
\* greedy choice is the only one that can succeed.
\* The first position from i on that holds no character of the class, the
\* position after the text if there is none.
SkipWhile(t, i, class) ==
    IF i > Len(t) THEN i
    ELSE CHOOSE k \in i..(Len(t) + 1) :
            /\ k > Len(t) \/ t[k] \notin class
            /\ \A m \in i..(k - 1) : t[m] \in class

\* The first position from i on that holds a character of the class.
SkipUntil(t, i, class) ==
    IF i > Len(t) THEN i
    ELSE CHOOSE k \in i..(Len(t) + 1) :
            /\ k > Len(t) \/ t[k] \in class
            /\ \A m \in i..(k - 1) : t[m] \notin class

LitAt(t, i, word) ==
    /\ i + Len(word) - 1 <= Len(t)
    /\ \A k \in 1..Len(word) : t[i + k - 1] = word[k]

NoMatch == [ok |-> FALSE, end |-> 0, path |-> << >>]

\* A quote, one or more characters that are not quotes, a quote, at i: the
\* capture and the position after the match.
QuotedAt(t, i) ==
    LET j == SkipUntil(t, i + 1, QuoteChars)
    IN  IF i <= Len(t) /\ t[i] \in QuoteChars /\ j > i + 1 /\ j <= Len(t)
        THEN [ok |-> TRUE, end |-> j + 1, path |-> SubSeq(t, i + 1, j - 1)]
        ELSE NoMatch

\* (?:\{[^}]*\}|\*\s+as\s+\w+|\w+) at j: the position after it, 0 for no match.
ClauseEnd(t, j) ==
    IF j > Len(t) THEN 0
    ELSE IF t[j] = "{"
    THEN LET k == SkipUntil(t, j + 1, { "}" })
         IN  IF k <= Len(t) THEN k + 1 ELSE 0
    ELSE IF t[j] = "*"
    THEN LET a == SkipWhile(t, j + 1, WhiteSpace)
             b == SkipWhile(t, a + 2, WhiteSpace)
             c == SkipWhile(t, b, WordChars)
         IN  IF a > j + 1 /\ LitAt(t, a, KwAs) /\ b > a + 2 /\ c > b THEN c ELSE 0
    ELSE IF t[j] \in WordChars THEN SkipWhile(t, j, WordChars)
    ELSE 0

\* \s+from\s+ at c: the position after it, 0 for no match.
FromEnd(t, c) ==
    LET d == SkipWhile(t, c, WhiteSpace)
        e == SkipWhile(t, d + 4, WhiteSpace)
    IN  IF d > c /\ LitAt(t, d, KwFrom) /\ e > d + 4 THEN e ELSE 0

\* utils.ts:147
es6ImportPattern(t, i) ==
    LET j == SkipWhile(t, i + 6, WhiteSpace)
        c == ClauseEnd(t, j)
        f == IF c = 0 THEN 0 ELSE FromEnd(t, c)
        withClause == IF f = 0 THEN NoMatch ELSE QuotedAt(t, f)
    IN  IF ~LitAt(t, i, KwImport) \/ j = i + 6 THEN NoMatch
        ELSE IF withClause.ok THEN withClause
        ELSE QuotedAt(t, j)

\* utils.ts:148
commonjsPattern(t, i) ==
    LET a == SkipWhile(t, i + 7, WhiteSpace)
        b == SkipWhile(t, a + 1, WhiteSpace)
        q == QuotedAt(t, b)
        c == SkipWhile(t, q.end, WhiteSpace)
    IN  IF ~LitAt(t, i, KwRequire) THEN NoMatch
        ELSE IF a > Len(t) \/ t[a] # "(" THEN NoMatch
        ELSE IF ~q.ok \/ c > Len(t) \/ t[c] # ")" THEN NoMatch
        ELSE [q EXCEPT !.end = c + 1]

\* utils.ts:152-154: exec() with the g flag finds the leftmost match at or
\* after lastIndex and leaves lastIndex after it.
ExecEs6(t, lastIndex) ==
    LET exec[i \in 1..(Len(t) + 1)] ==
            IF i > Len(t) THEN << >>
            ELSE LET m == es6ImportPattern(t, i)
                 IN  IF m.ok THEN << m.path >> \o exec[m.end] ELSE exec[i + 1]
    IN  exec[lastIndex]

\* utils.ts:157-159
ExecCommonjs(t, lastIndex) ==
    LET exec[i \in 1..(Len(t) + 1)] ==
            IF i > Len(t) THEN << >>
            ELSE LET m == commonjsPattern(t, i)
                 IN  IF m.ok THEN << m.path >> \o exec[m.end] ELSE exec[i + 1]
    IN  exec[lastIndex]

\* utils.ts:143-159 on every source: every ES6 match first, then every
\* CommonJS match.
Scanned ==
    { [content |-> c,
       imports |-> ExecEs6(FileText(c), 1) \o ExecCommonjs(FileText(c), 1)] :
        c \in Sources }

ScanImports(content) == (CHOOSE r \in Scanned : r.content = content).imports

\* utils.ts:142-168 without the cache: readFileSync throws for a missing or
\* unreadable file (every file, once the directory is gone) and the catch
\* block yields [].
ReadImports(path) ==
    IF cwdOk /\ fs[path].st = "file" THEN ScanImports(fs[path].content) ELSE << >>

\* The disk as a call finds it: for each path whether readFileSync succeeds
\* (line 143) and what the two loops then collect (lines 152-159).
Disk ==
    [p \in Paths |-> [ok |-> cwdOk /\ fs[p].st = "file", imports |-> ReadImports(p)]]

\* extractImports without line 166: a failed read is not remembered.
extractImports_NoCacheOnError(filePath, ic, disk) ==
    IF filePath \in DOMAIN ic
    THEN [imports |-> ic[filePath], ic |-> ic, read |-> FALSE, warned |-> FALSE]
    ELSE [imports |-> disk[filePath].imports,
          ic |-> IF disk[filePath].ok
                 THEN ic @@ (filePath :> disk[filePath].imports) ELSE ic,
          read |-> TRUE,
          warned |-> ~disk[filePath].ok]

\* extractImports(filePath) against import cache ic and the disk: the import
\* list, the cache afterwards, whether readFileSync was called and whether
\* the catch block printed its warning (line 165).
extractImports(filePath, ic, disk) ==
    IF filePath \in DOMAIN ic
    THEN [imports |-> ic[filePath], ic |-> ic, read |-> FALSE, warned |-> FALSE]
    ELSE [imports |-> disk[filePath].imports,
          ic |-> ic @@ (filePath :> disk[filePath].imports),
          read |-> TRUE,
          warned |-> ~disk[filePath].ok]

\* One extractImports call as the caller saw it: the file, whether it was
\* read from disk, whether the read failed with a warning, the list returned
\* and how many of its entries the caller tested against the patterns.
Lookup(file, e, tested) ==
    [file |-> file, read |-> e.read, warned |-> e.warned, imports |-> e.imports,
     tested |-> tested]

Range(s) == { s[i] : i \in 1..Len(s) }

-----------------------------------------------------------------------------
(* Usage resolver (utils.ts:247-335)                                       *)

\* `${packageName}:${projectFiles.length}`: the length is the digits after the
\* last colon, so the string determines the pair and the pair the string.
cacheKey(packageName, projectFiles) == << packageName, Len(projectFiles) >>

\* utils.ts:262-280: the three tests made on one import.
ImportMatches(packageName, imp) ==
    \/ RegExpTest(exactMatchPattern(packageName), imp)
    \/ RegExpTest(prefixPattern(packageName), imp)
    \/ RegExpTest(scopedPattern(packageName), imp)

\* utils.ts:262-280: the imports of one file are tested in order; the first
\* match returns.  tested is the number of imports looked at.
RECURSIVE TestImports(_, _, _)
TestImports(packageName, imports, k) ==
    IF k > Len(imports) THEN [found |-> FALSE, tested |-> k - 1]
    ELSE IF ImportMatches(packageName, imports[k]) THEN [found |-> TRUE, tested |-> k]
    ELSE TestImports(packageName, imports, k + 1)

\* utils.ts:259-284 with a flag set in place of the three return statements.
RECURSIVE ScanFiles_NoBreak(_, _, _, _, _, _)
ScanFiles_NoBreak(packageName, projectFiles, i, ic, log, disk) ==
    IF i > Len(projectFiles) THEN [found |-> FALSE, ic |-> ic, log |-> log]
    ELSE LET e == extractImports(projectFiles[i], ic, disk)
             t == TestImports(packageName, e.imports, 1)
             rest == ScanFiles_NoBreak(packageName, projectFiles, i + 1, e.ic,
                         Append(log, Lookup(projectFiles[i], e, Len(e.imports))),
                         disk)
         IN  [rest EXCEPT !.found = t.found \/ @]

\* utils.ts:259-284: files are extracted in order until one holds a match.
RECURSIVE ScanFiles(_, _, _, _, _, _)
ScanFiles(packageName, projectFiles, i, ic, log, disk) ==
    IF i > Len(projectFiles) THEN [found |-> FALSE, ic |-> ic, log |-> log]
    ELSE LET e == extractImports(projectFiles[i], ic, disk)
             t == TestImports(packageName, e.imports, 1)
             seen == Append(log, Lookup(projectFiles[i], e, t.tested))
         IN  IF t.found
             THEN [found |-> TRUE, ic |-> e.ic, log |-> seen]
             ELSE ScanFiles(packageName, projectFiles, i + 1, e.ic, seen, disk)

\* isPackageUsed(packageName, projectFiles) against caches ic, uc and the
\* disk.
isPackageUsed(packageName, projectFiles, ic, uc, disk) ==
    LET key == cacheKey(packageName, projectFiles)
    IN  IF key \in DOMAIN uc
        THEN [result |-> uc[key], ic |-> ic, uc |-> uc, log |-> << >>]
        ELSE LET s == ScanFiles(packageName, projectFiles, 1, ic, << >>, disk)
             IN  [result |-> s.found, ic |-> s.ic, uc |-> uc @@ (key :> s.found),
                  log |-> s.log]

\* utils.ts:294-298: all files are extracted, in order.
RECURSIVE ExtractAll(_, _, _, _)
ExtractAll(projectFiles, i, acc, disk) ==
    IF i > Len(projectFiles) THEN acc
    ELSE LET e == extractImports(projectFiles[i], acc.ic, disk)
         IN  ExtractAll(projectFiles, i + 1,
                        [allImports |-> acc.allImports \cup Range(e.imports),
                         ic |-> e.ic,
                         log |-> Append(acc.log, Lookup(projectFiles[i], e, 0))],
                        disk)

\* utils.ts:309-328 with the exact test only.
BatchVerdict_ExactOnly(packageName, allImports) == packageName \in allImports

\* utils.ts:309-328: the verdict computed for one name from the import set.
BatchVerdict(packageName, allImports) ==
    \/ packageName \in allImports
    \/ \E imp \in allImports :
          \/ startsWith(imp, packageName \o << "/" >>)
          \/ startsWith(packageName, << "@" >>) /\ startsWith(imp, packageName)

\* utils.ts:301-332: names are processed in order; each consults the cache,
\* and a computed verdict is stored before the next name is looked at.
RECURSIVE BatchLoop(_, _, _, _, _)
BatchLoop(packageNames, projectFiles, i, allImports, acc) ==
    IF i > Len(packageNames) THEN acc
    ELSE LET name == packageNames[i]
             key  == cacheKey(name, projectFiles)
             v    == IF key \in DOMAIN acc.uc THEN acc.uc[key]
                     ELSE BatchVerdict(name, allImports)
             assigned == [n \in (DOMAIN acc.results) \cup {name} |->
                             IF n = name THEN v ELSE acc.results[n]]
         IN  BatchLoop(packageNames, projectFiles, i + 1, allImports,
                       [results |-> assigned,
                        uc |-> IF key \in DOMAIN acc.uc THEN acc.uc
                               ELSE acc.uc @@ (key :> v)])

batchCheckPackageUsage(packageNames, projectFiles, ic, uc, disk) ==
    LET x == ExtractAll(projectFiles, 1,
                        [allImports |-> {}, ic |-> ic, log |-> << >>], disk)
        b == BatchLoop(packageNames, projectFiles, 1, x.allImports,
                       [results |-> EmptyMap, uc |-> uc])
    IN  [results |-> b.results, ic |-> x.ic, uc |-> b.uc, log |-> x.log]

\* What has been observed of the disk and of extractImports since the caches
\* were last cleared: how often each path was read, the list the first
\* lookup of each path returned, the paths looked up again later, whether
\* every later lookup returned the first list, and the paths whose read
\* failed with a warning.
NoIo == [reads |-> [p \in Paths |-> 0], first |-> EmptyMap, again |-> {},
         stable |-> TRUE, warned |-> {}]

RECURSIVE Observe(_, _)
Observe(o, log) ==
    IF log = << >> THEN o
    ELSE LET e == Head(log)
             o1 == [o EXCEPT !.reads[e.file] = IF e.read THEN @ + 1 ELSE @,
                             !.warned = IF e.warned THEN @ \cup { e.file } ELSE @]
             o2 == IF e.file \in DOMAIN o.first
                   THEN [o1 EXCEPT !.stable = @ /\ e.imports = o.first[e.file],
                                   !.again = @ \cup { e.file }]
                   ELSE [o1 EXCEPT !.first = @ @@ (e.file :> e.imports)]
         IN  Observe(o2, Tail(log))

\* utils.ts:42-46 (fileContentCache is cleared too; nothing ever writes it)
clearCaches_KeepUsage ==
    /\ importCache' = EmptyMap
    /\ UNCHANGED packageUsageCache

clearCaches ==
    /\ importCache' = EmptyMap
    /\ packageUsageCache' = EmptyMap

-----------------------------------------------------------------------------
(* Manifest reader (utils.ts:51-80)                                        *)

Dep(name, range) == [name |-> name, range |-> range]
NoGroup     == [present |-> FALSE, entries |-> << >>]
Group(deps) == [present |-> TRUE, entries |-> deps]

Manifest(d, dev, peer, opt) ==
    [exists |-> TRUE, readable |-> TRUE, wellFormed |-> TRUE, dependencies |-> d,
     devDependencies |-> dev, peerDependencies |-> peer,
     optionalDependencies |-> opt]

ManifestAbsent  == [Manifest(NoGroup, NoGroup, NoGroup, NoGroup) EXCEPT !.exists = FALSE]
ManifestCorrupt == [Manifest(NoGroup, NoGroup, NoGroup, NoGroup) EXCEPT !.wellFormed = FALSE]
ManifestUnreadable == [Manifest(NoGroup, NoGroup, NoGroup, NoGroup) EXCEPT !.readable = FALSE]

\* What a call that threw hands back: no value.
Thrown == [thrown |-> TRUE]

\* utils.ts:51-64 without the existsSync test: readFileSync then throws inside
\* the try block.
readPackageJson_NoExistsCheck ==
    IF ~cwdOk THEN [ok |-> FALSE, error |-> "cwd", pkg |-> Thrown]
    ELSE IF ~manifest.exists \/ ~manifest.readable \/ ~manifest.wellFormed
    THEN [ok |-> FALSE, error |-> "parse", pkg |-> Thrown]
    ELSE [ok |-> TRUE, error |-> "none", pkg |-> manifest]

\* utils.ts:51-64.  process.cwd() throws when the working directory is gone;
\* a failure of readFileSync or of JSON.parse is rethrown as the parse error.
readPackageJson ==
    IF ~cwdOk THEN [ok |-> FALSE, error |-> "cwd", pkg |-> Thrown]
    ELSE IF ~manifest.exists THEN [ok |-> FALSE, error |-> "not found", pkg |-> Thrown]
    ELSE IF ~manifest.readable \/ ~manifest.wellFormed
    THEN [ok |-> FALSE, error |-> "parse", pkg |-> Thrown]
    ELSE [ok |-> TRUE, error |-> "none", pkg |-> manifest]

NamesOf(deps) == [i \in 1..Len(deps) |-> deps[i].name]

\* Object.assign(target, source) on insertion-ordered objects: an existing key
\* keeps its position and takes the new value, a new key is appended.
RECURSIVE ObjectAssign(_, _)
ObjectAssign(target, source) ==
    IF source = << >> THEN target
    ELSE LET e == Head(source)
             merged ==
                 IF \E i \in 1..Len(target) : target[i].name = e.name
                 THEN [i \in 1..Len(target) |->
                          IF target[i].name = e.name THEN e ELSE target[i]]
                 ELSE Append(target, e)
         IN  ObjectAssign(merged, Tail(source))

MergeGroup_Concat(allDeps, group) ==
    IF group.present THEN allDeps \o group.entries ELSE allDeps

MergeGroup(allDeps, group) ==
    IF group.present THEN ObjectAssign(allDeps, group.entries) ELSE allDeps

\* utils.ts:69-80 without the line for the optional group.
getAllDependencies_NoOptional(pkg) ==
    MergeGroup(MergeGroup(MergeGroup(<< >>, pkg.dependencies),
        pkg.devDependencies), pkg.peerDependencies)

\* utils.ts:69-80, given a parsed manifest.
getAllDependencies(pkg) ==
    MergeGroup(MergeGroup(MergeGroup(MergeGroup(<< >>, pkg.dependencies),
        pkg.devDependencies), pkg.peerDependencies), pkg.optionalDependencies)

-----------------------------------------------------------------------------
(* Source file locator (utils.ts:85-131)                                   *)

\* What is on disk is a set of nodes; a directory holds named entries in
\* readdirSync order, and an entry may lead to any node (a symbolic link to
\* a directory above it, for one).  statSync follows links: it throws for a
\* "broken" node and answers neither isDirectory nor isFile for a "special"
\* one.  readdirSync throws for a directory that is not readable.
Entry(name, node) == [name |-> name, node |-> node]
DirNode(entries)  == [kind |-> "dir", readable |-> TRUE, entries |-> entries]
LockedDirNode     == [kind |-> "dir", readable |-> FALSE, entries |-> << >>]
FileNode          == [kind |-> "file", readable |-> TRUE, entries |-> << >>]
SpecialNode       == [kind |-> "special", readable |-> TRUE, entries |-> << >>]
BrokenNode        == [kind |-> "broken", readable |-> FALSE, entries |-> << >>]

UpperCase == << "A", "B", "C", "D", "E", "F", "G", "H", "I", "J", "K", "L", "M", "N", "O", "P", "Q", "R", "S", "T", "U", "V", "W", "X", "Y", "Z" >>
LowerCase == << "a", "b", "c", "d", "e", "f", "g", "h", "i", "j", "k", "l", "m", "n", "o", "p", "q", "r", "s", "t", "u", "v", "w", "x", "y", "z" >>

\* String.prototype.toLowerCase
toLowerCase(str) ==
    [i \in 1..Len(str) |->
        IF \E k \in 1..Len(UpperCase) : UpperCase[k] = str[i]
        THEN LowerCase[CHOOSE k \in 1..Len(UpperCase) : UpperCase[k] = str[i]]
        ELSE str[i]]

\* path.extname of a file name: from the last dot on, empty when there is no
\* dot or the only dot is the first character.
extname(name) ==
    LET dots == { i \in 1..Len(name) : name[i] = "." }
        last == CHOOSE i \in dots : \A k \in dots : k <= i
    IN  IF dots = {} \/ dots = { 1 } THEN << >>
        ELSE SubSeq(name, last, Len(name))

MaxDepth == 20      \* utils.ts:95

\* utils.ts:87-88: the default arguments
Extensions ==
    { << ".", "j", "s" >>,
      << ".", "j", "s", "x" >>, << ".", "t", "s" >>, << ".", "t", "s", "x" >>,
      << ".", "v", "u", "e" >>, << ".", "s", "v", "e", "l", "t", "e" >> }
ExcludeDirs ==
    { << "n", "o", "d", "e", "_", "m", "o", "d", "u", "l", "e", "s" >>,
      << ".", "g", "i", "t" >>, << "d", "i", "s", "t" >>, << "b", "u", "i", "l", "d" >>,
      << "c", "o", "v", "e", "r", "a", "g", "e" >>, << ".", "n", "e", "x", "t" >>,
      << ".", "n", "u", "x", "t" >>, << ".", "c", "a", "c", "h", "e" >> }

\* A call of scanDirectory(currentDir, depth) in progress: k = 0 on entry,
\* afterwards the index of the item the loop of line 100 is at.
Frame(node, currentDir, depth) ==
    [node |-> node, currentDir |-> currentDir, depth |-> depth, k |-> 0]

\* utils.ts:92-129: the walk when findProjectFiles makes its first call of
\* scanDirectory: the calls in progress, the files pushed, the directories
\* warned about (line 125) and the directories readdirSync listed (line 98).
StartWalk(tree) ==
    [stack |-> << Frame(tree.root, << >>, 0) >>,
     files |-> << >>, warnings |-> << >>, readDirs |-> << >>]

\* utils.ts:93-127 comparing the depth with the bound plus one.
scanDirectory_OffByOne(nodes, arg, w) ==
    LET top    == w.stack[Len(w.stack)]
        return == [w EXCEPT !.stack = SubSeq(@, 1, Len(@) - 1)]
        next   == [w EXCEPT !.stack[Len(w.stack)].k = @ + 1]
        items  == nodes[top.node].entries
    IN  IF top.k = 0
        THEN IF top.depth > MaxDepth + 1 THEN return
             ELSE IF nodes[top.node].kind # "dir" \/ ~nodes[top.node].readable
             THEN [return EXCEPT !.warnings = Append(@, top.currentDir)]
             ELSE [next EXCEPT !.readDirs = Append(@, top.currentDir)]
        ELSE IF top.k > Len(items) THEN return
        ELSE LET item     == items[top.k].name
                 fullPath == Append(top.currentDir, item)
                 stat     == nodes[items[top.k].node]
             IN  IF stat.kind = "broken" THEN next
                 ELSE IF stat.kind = "dir"
                 THEN IF item \notin arg.excludeDirs
                      THEN [next EXCEPT !.stack =
                               Append(@, Frame(items[top.k].node, fullPath,
                                               top.depth + 1))]
                      ELSE next
                 ELSE IF stat.kind = "file"
                 THEN IF toLowerCase(extname(item)) \in arg.extensions
                      THEN [next EXCEPT !.files = Append(@, fullPath)]
                      ELSE next
                 ELSE next

\* utils.ts:93-127, one step of the innermost scanDirectory call: on entry
\* the depth test (line 95) and readdirSync (line 98, caught at line 123);
\* afterwards one item of the loop (lines 100-122), whose statSync (line
\* 104) is caught at line 118 and the item skipped with nothing printed.
scanDirectory(nodes, arg, w) ==
    LET top    == w.stack[Len(w.stack)]
        return == [w EXCEPT !.stack = SubSeq(@, 1, Len(@) - 1)]
        next   == [w EXCEPT !.stack[Len(w.stack)].k = @ + 1]
        items  == nodes[top.node].entries
    IN  IF top.k = 0
        THEN IF top.depth > MaxDepth THEN return
             ELSE IF nodes[top.node].kind # "dir" \/ ~nodes[top.node].readable
             THEN [return EXCEPT !.warnings = Append(@, top.currentDir)]
             ELSE [next EXCEPT !.readDirs = Append(@, top.currentDir)]
        ELSE IF top.k > Len(items) THEN return
        ELSE LET item     == items[top.k].name
                 fullPath == Append(top.currentDir, item)
                 stat     == nodes[items[top.k].node]
             IN  IF stat.kind = "broken" THEN next
                 ELSE IF stat.kind = "dir"
                 THEN IF item \notin arg.excludeDirs
                      THEN [next EXCEPT !.stack =
                               Append(@, Frame(items[top.k].node, fullPath,
                                               top.depth + 1))]
                      ELSE next
                 ELSE IF stat.kind = "file"
                 THEN IF toLowerCase(extname(item)) \in arg.extensions
                      THEN [next EXCEPT !.files = Append(@, fullPath)]
                      ELSE next
                 ELSE next

\* The walk run until the first scanDirectory call returns.
RECURSIVE RunWalk(_, _, _)
RunWalk(nodes, arg, w) ==
    IF w.stack = << >> THEN w ELSE RunWalk(nodes, arg, scanDirectory(nodes, arg, w))

\* utils.ts:85-131 on the tree below tree.root
findProjectFiles(tree, extensions, excludeDirs) ==
    RunWalk(tree.nodes, [extensions |-> extensions, excludeDirs |-> excludeDirs],
            StartWalk(tree))

\* The working directory of the detector runs: the two source files, when
\* they exist, and nothing else.
PathOrder == << "a.ts", "b.js" >>          \* readdirSync order
NameOf    == ("a.ts" :> << "a", ".", "t", "s" >>) @@ ("b.js" :> << "b", ".", "j", "s" >>)

CwdTree ==
    LET present == SelectSeq(PathOrder, LAMBDA p : fs[p].st # "absent")
    IN  [root |-> ".",
         nodes |-> [n \in { "." } \cup Paths |->
                      IF n = "."
                      THEN DirNode([i \in 1..Len(present) |->
                                      Entry(NameOf[present[i]], present[i])])
                      ELSE FileNode]]

\* analyzer.ts:69: findProjectFiles() with every argument defaulted; each
\* path found is the path extractImports is later given.
findProjectFilesInCwd ==
    LET found == findProjectFiles(CwdTree, Extensions, ExcludeDirs).files
    IN  [i \in 1..Len(found) |->
            CHOOSE p \in Paths : << NameOf[p] >> = found[i]]

-----------------------------------------------------------------------------
(* Infrastructure classifier (analyzer.ts:13-47)                           *)

INFRASTRUCTURE_PACKAGES ==
    (N_typescript :> "Build tool - needed for TypeScript compilation")
    @@ (N_ts_node :> "Development tool - needed for running TypeScript directly")
    @@ (N_webpack :> "Build tool - needed for bundling")
    @@ (N_jest :> "Testing framework - needed for running tests")
    @@ (N_ts_jest :> "TypeScript testing - needed for Jest TypeScript support")
    @@ (N_types_jest :> "Type definitions - needed for Jest TypeScript support")
    @@ (N_rimraf :> "Development tool - needed for clean script")
    @@ (N_types_node :> "Type definitions - needed for Node.js types")
    @@ (N_types_star :> "Type definitions - needed for TypeScript support")

\* analyzer.ts:35-47 without the @types/ pattern rule.
isInfrastructurePackage_TableOnly(packageName) ==
    IF packageName \in DOMAIN INFRASTRUCTURE_PACKAGES
    THEN [isInfra |-> TRUE, reason |-> INFRASTRUCTURE_PACKAGES[packageName]]
    ELSE [isInfra |-> FALSE, reason |-> "none"]

isInfrastructurePackage(packageName) ==
    IF packageName \in DOMAIN INFRASTRUCTURE_PACKAGES
    THEN [isInfra |-> TRUE, reason |-> INFRASTRUCTURE_PACKAGES[packageName]]
    ELSE IF startsWith(packageName, TypesPrefix)
    THEN [isInfra |-> TRUE, reason |-> "Type definitions - needed for TypeScript support"]
    ELSE [isInfra |-> FALSE, reason |-> "none"]

-----------------------------------------------------------------------------
(* Reporter (reporter.ts:11-28, 97-111)                                    *)

Msg(kind, text) == [kind |-> kind, text |-> text]
printInfo(log, text)    == Append(log, Msg("info", text))
printSuccess(log, text) == Append(log, Msg("success", text))
printError(log, text)   == Append(log, Msg("error", text))
addResults(list, more)  == list \o more

CountKind(log, kind) == Len(SelectSeq(log, LAMBDA m : m.kind = kind))

-----------------------------------------------------------------------------
(* detectUnusedPackages (analyzer.ts:52-136)                               *)

NoMetadata == [category |-> "none", reason |-> "none"]

\* analyzer.ts:87-96 with the severity of the other branch.
InfraFinding_Medium(packageName, reason) ==
    [type |-> "unused", packageName |-> packageName,
     message |-> << "Infrastructure package: ", reason >>, severity |-> "medium",
     metadata |-> [category |-> "infrastructure", reason |-> reason]]

InfraFinding(packageName, reason) ==
    [type |-> "unused", packageName |-> packageName,
     message |-> << "Infrastructure package: ", reason >>, severity |-> "low",
     metadata |-> [category |-> "infrastructure", reason |-> reason]]

UnusedFinding(packageName) ==
    [type |-> "unused", packageName |-> packageName,
     message |-> << "Not imported anywhere in the project" >>,
     severity |-> "medium", metadata |-> NoMetadata]

\* analyzer.ts:79-107 with the classifier consulted before the verdict.
RECURSIVE Classify_InfraFirst(_, _)
Classify_InfraFirst(names, usageResults) ==
    IF names = << >> THEN [unused |-> << >>, infra |-> << >>]
    ELSE LET rest == Classify_InfraFirst(Tail(names), usageResults)
             n == Head(names)
             c == isInfrastructurePackage(n)
         IN  IF c.isInfra
             THEN [rest EXCEPT !.infra = << InfraFinding(n, c.reason) >> \o @]
             ELSE IF ~usageResults[n]
             THEN [rest EXCEPT !.unused = << UnusedFinding(n) >> \o @]
             ELSE rest

\* analyzer.ts:76-107: the two lists built by the loop over dependencyNames.
RECURSIVE Classify(_, _)
Classify(names, usageResults) ==
    IF names = << >> THEN [unused |-> << >>, infra |-> << >>]
    ELSE LET rest == Classify(Tail(names), usageResults)
             n == Head(names)
             c == isInfrastructurePackage(n)
         IN  IF usageResults[n] THEN rest
             ELSE IF c.isInfra
             THEN [rest EXCEPT !.infra = << InfraFinding(n, c.reason) >> \o @]
             ELSE [rest EXCEPT !.unused = << UnusedFinding(n) >> \o @]

NoRun ==
    [dependencyNames |-> << >>, projectFiles |-> << >>, usageResults |-> EmptyMap,
     findings |-> << >>, outcome |-> "none", scanned |-> FALSE,
     startResults |-> << >>, addCalls |-> 0, disturbed |-> FALSE]

NoPrev == [ran |-> FALSE, same |-> FALSE, findings |-> {}, verdicts |-> EmptyMap]
NoCall == [op |-> "none"]

-----------------------------------------------------------------------------
(* Bounded inputs *)

MaxRuns  == 2     \* addResults calls a process makes before clearResults
MaxCalls == 1     \* direct resolver calls made on top of non-cleared caches

V1 == << "^", "1" >>
V2 == << "^", "2" >>

Manifests ==
    { ManifestAbsent,
      ManifestCorrupt,
      Manifest(NoGroup, NoGroup, NoGroup, NoGroup),
      Manifest(Group(<< >>), NoGroup, NoGroup, NoGroup),
      Manifest(Group(<< Dep(N_lo, V1) >>), NoGroup, NoGroup, NoGroup),
      Manifest(Group(<< Dep(N_lo, V1), Dep(N_s_n, V1) >>),
               Group(<< Dep(N_jest, V1), Dep(N_types_x, V1), Dep(N_types_node, V1) >>),
               NoGroup, NoGroup),
      Manifest(Group(<< Dep(N_lo_x, V1), Dep(N_lo, V1) >>),
               Group(<< Dep(N_lo, V2) >>),
               Group(<< Dep(N_jest, V1) >>),
               Group(<< Dep(N_lo_x, V2), Dep(N_a_b, V1) >>)) }

DeclaredNames(m) ==
    { m.dependencies.entries[i].name : i \in 1..Len(m.dependencies.entries) }
    \cup { m.devDependencies.entries[i].name : i \in 1..Len(m.devDependencies.entries) }
    \cup { m.peerDependencies.entries[i].name : i \in 1..Len(m.peerDependencies.entries) }
    \cup { m.optionalDependencies.entries[i].name :
              i \in 1..Len(m.optionalDependencies.entries) }

-----------------------------------------------------------------------------
(* detectUnusedPackages, one action per stage of analyzer.ts:52-136        *)

Caught_Twice ==
    /\ out' = printError(printError(out, "Failed to detect unused packages"),
                         "Failed to detect unused packages")
    /\ run' = [run EXCEPT !.outcome = "error"]
    /\ pc' = "done"

\* analyzer.ts:133-135: the catch block; the promise then resolves (pc "done").
Caught ==
    /\ out' = printError(out, "Failed to detect unused packages")
    /\ run' = [run EXCEPT !.outcome = "error"]
    /\ pc' = "done"

\* analyzer.ts:52-57
DetectBegin_NoClear ==
    /\ pc = "idle"
    /\ runs < MaxRuns
    /\ UNCHANGED << importCache, packageUsageCache, io >>
    /\ calls' = 0
    /\ out' = printInfo(IF mainPc = "off" THEN << >> ELSE out,
                        "Scanning project files for imports...")
    /\ run' = [NoRun EXCEPT !.startResults = results]
    /\ pc' = "read"
    /\ UNCHANGED << manifest, fs, cwdOk, results, prev, runs, call >>

DetectBegin ==
    /\ pc = "idle"
    /\ runs < MaxRuns
    /\ clearCaches
    /\ io' = NoIo
    /\ calls' = 0
    /\ out' = printInfo(IF mainPc = "off" THEN << >> ELSE out,
                        "Scanning project files for imports...")
    /\ run' = [NoRun EXCEPT !.startResults = results]
    /\ pc' = "read"
    /\ UNCHANGED << manifest, fs, cwdOk, results, prev, runs, call >>

\* analyzer.ts:60-66 without the early return for an empty manifest.
DetectRead_NoEarlyReturn ==
    /\ pc = "read"
    /\ LET r == readPackageJson
       IN  IF ~r.ok THEN Caught
           ELSE /\ run' = [run EXCEPT
                              !.dependencyNames = NamesOf(getAllDependencies(r.pkg))]
                /\ pc' = "locate"
                /\ UNCHANGED out
    /\ UNCHANGED << manifest, fs, cwdOk, importCache, packageUsageCache, io, results,
                    prev, runs, call, calls >>

\* analyzer.ts:60-66
DetectRead ==
    /\ pc = "read"
    /\ LET r == readPackageJson
           dependencyNames == NamesOf(getAllDependencies(r.pkg))
       IN  IF ~r.ok THEN Caught
           ELSE IF Len(dependencyNames) = 0
           THEN /\ out' = printInfo(out, "No dependencies found in package.json")
                /\ run' = [run EXCEPT !.outcome = "empty"]
                /\ pc' = "done"
           ELSE /\ run' = [run EXCEPT !.dependencyNames = dependencyNames]
                /\ pc' = "locate"
                /\ UNCHANGED out
    /\ UNCHANGED << manifest, fs, cwdOk, importCache, packageUsageCache, io, results,
                    prev, runs, call, calls >>

\* analyzer.ts:69-70.  The default argument process.cwd() is evaluated outside
\* findProjectFiles' own try blocks and throws when the directory is gone.
DetectLocate ==
    /\ pc = "locate"
    /\ IF ~cwdOk THEN Caught
       ELSE /\ run' = [run EXCEPT !.projectFiles = findProjectFilesInCwd,
                                  !.scanned = TRUE]
            /\ out' = printInfo(out, "Found n project files to analyze")
            /\ pc' = "batch"
    /\ UNCHANGED << manifest, fs, cwdOk, importCache, packageUsageCache, io, results,
                    prev, runs, call, calls >>

\* analyzer.ts:73
DetectBatch ==
    /\ pc = "batch"
    /\ LET b == batchCheckPackageUsage(run.dependencyNames, run.projectFiles,
                                       importCache, packageUsageCache, Disk)
       IN  /\ run' = [run EXCEPT !.usageResults = b.results]
           /\ importCache' = b.ic
           /\ packageUsageCache' = b.uc
           /\ io' = Observe(io, b.log)
    /\ pc' = "report"
    /\ UNCHANGED << manifest, fs, cwdOk, results, out, prev, runs, call, calls >>

\* analyzer.ts:115-131: the messages that follow the findings.
Summary(log, c) ==
    LET allResults == c.unused \o c.infra
        a == IF allResults # << >>
             THEN LET l1 == IF c.unused # << >>
                            THEN printInfo(log, "Found n truly unused packages")
                            ELSE log
                  IN  IF c.infra # << >>
                      THEN printInfo(l1, "Found n infrastructure packages")
                      ELSE l1
             ELSE printSuccess(log, "All packages are being used")
    IN  IF c.unused = << >> /\ c.infra = << >>
        THEN printSuccess(a, "No unused packages found! All dependencies are being used.")
        ELSE IF c.unused = << >>
        THEN printSuccess(a, "No truly unused packages found! Only infrastructure packages detected.")
        ELSE a

\* analyzer.ts:76-131 with the infrastructure findings put first.
DetectReport_InfraFirst ==
    /\ pc = "report"
    /\ LET c == Classify(run.dependencyNames, run.usageResults)
           allResults == c.infra \o c.unused
       IN  /\ results' = IF allResults # << >> THEN addResults(results, allResults)
                         ELSE results
           /\ runs' = IF allResults # << >> THEN runs + 1 ELSE runs
           /\ run' = [run EXCEPT !.findings = allResults, !.outcome = "ok",
                                 !.addCalls = IF allResults # << >> THEN 1 ELSE 0]
           /\ out' = Summary(out, c)
    /\ pc' = "done"
    /\ UNCHANGED << manifest, fs, cwdOk, importCache, packageUsageCache, io, prev,
                    call, calls >>

\* analyzer.ts:76-131
DetectReport ==
    /\ pc = "report"
    /\ LET c == Classify(run.dependencyNames, run.usageResults)
           allResults == c.unused \o c.infra
       IN  /\ results' = IF allResults # << >> THEN addResults(results, allResults)
                         ELSE results
           /\ runs' = IF allResults # << >> THEN runs + 1 ELSE runs
           /\ run' = [run EXCEPT !.findings = allResults, !.outcome = "ok",
                                 !.addCalls = IF allResults # << >> THEN 1 ELSE 0]
           /\ out' = Summary(out, c)
    /\ pc' = "done"
    /\ UNCHANGED << manifest, fs, cwdOk, importCache, packageUsageCache, io, prev,
                    call, calls >>

\* The promise of detectUnusedPackages settles and control is back with the caller.
DetectReturn ==
    /\ pc = "done"
    /\ pc' = "idle"
    /\ prev' = [ran |-> TRUE, same |-> ~run.disturbed, findings |-> Range(run.findings),
                verdicts |-> run.usageResults]
    /\ run' = NoRun
    /\ out' = IF mainPc = "off" THEN << >> ELSE out
    /\ UNCHANGED << manifest, fs, cwdOk, importCache, packageUsageCache, io, results,
                    runs, call, calls >>

DetectStep ==
    \/ DetectRead
    \/ DetectLocate
    \/ DetectBatch
    \/ DetectReport
    \/ DetectReturn

\* A caller of the library starts a run.
DetectCall ==
    /\ mainPc = "off"
    /\ DetectBegin
    /\ UNCHANGED << mainPc, options, exitCode >>

LibDetectStep ==
    /\ mainPc = "off"
    /\ DetectStep
    /\ UNCHANGED << mainPc, options, exitCode >>

-----------------------------------------------------------------------------
(* The environment and the other exported operations, between runs         *)

\* A source file is written, created or deleted.
WriteFile ==
    /\ pc = "idle"
    /\ cwdOk
    /\ \E p \in Paths, f \in WriteFiles :
          /\ fs[p] # f
          /\ fs' = [fs EXCEPT ![p] = f]
    /\ prev' = [prev EXCEPT !.same = FALSE]
    /\ UNCHANGED << manifest, cwdOk, importCache, packageUsageCache, io, results, out,
                    pc, run, runs, call, calls, mainPc, options, exitCode >>

\* The working directory is removed with all it holds (by another process, at
\* any moment, also in the middle of a run): from then on no file in it can
\* be read, whatever manifest and fs held.
RemoveCwd ==
    /\ cwdOk
    /\ cwdOk' = FALSE
    /\ prev' = [prev EXCEPT !.same = FALSE]
    /\ run' = IF pc = "idle" THEN run ELSE [run EXCEPT !.disturbed = TRUE]
    /\ UNCHANGED << manifest, fs, importCache, packageUsageCache, io, results, out,
                    pc, runs, call, calls, mainPc, options, exitCode >>

\* utils.ts:42-46 called by a user of the library.
ClearCachesCall ==
    /\ pc = "idle"
    /\ importCache # EmptyMap \/ packageUsageCache # EmptyMap
    /\ clearCaches
    /\ io' = NoIo
    /\ calls' = 0
    /\ call' = NoCall
    /\ UNCHANGED << manifest, fs, cwdOk, results, out, pc, run, prev, runs,
                    mainPc, options, exitCode >>

\* reporter.ts:22-24 called by a user of the library.
ClearResultsCall ==
    /\ pc = "idle"
    /\ results # << >>
    /\ results' = << >>
    /\ runs' = 0
    /\ UNCHANGED << manifest, fs, cwdOk, importCache, packageUsageCache, io, out, pc,
                    run, prev, call, calls, mainPc, options, exitCode >>

NoOptions == {}

Init ==
    /\ manifest \in Manifests
    /\ fs \in [Paths -> WriteFiles]
    /\ cwdOk = TRUE
    /\ importCache = EmptyMap
    /\ packageUsageCache = EmptyMap
    /\ io = NoIo
    /\ results = << >>
    /\ out = << >>
    /\ pc = "idle"
    /\ run = NoRun
    /\ prev = NoPrev
    /\ runs = 0
    /\ call = NoCall
    /\ calls = 0
    /\ mainPc = "off"
    /\ options = NoOptions
    /\ exitCode = "running"

Next ==
    \/ DetectCall
    \/ LibDetectStep
    \/ WriteFile
    \/ RemoveCwd
    \/ ClearCachesCall
    \/ ClearResultsCall

Spec == Init /\ [][Next]_vars

-----------------------------------------------------------------------------
(* The resolver called directly (utils.ts:247-335), from any file contents *)

UsageNames == { N_lo, N_lo_x, N_a_b, N_s_n, N_s_nx, N_s_o }

UsageFileLists ==
    { << >>, << "a.ts" >>, << "b.js" >>, << "a.ts", "b.js" >>, << "b.js", "a.ts" >>,
      << "a.ts", "a.ts" >> }

UsageNameLists ==
    { << N_s_n >>, << N_lo, N_s_n >>, << N_s_nx, N_a_b, N_lo_x >>, << N_s_o, N_lo >>,
      << N_lo, N_s_n, N_lo >> }

CachesEmpty == importCache = EmptyMap /\ packageUsageCache = EmptyMap

IsPackageUsedCall ==
    /\ pc = "idle"
    /\ calls < MaxCalls
    /\ \E p \in UsageNames, files \in UsageFileLists :
          LET r == isPackageUsed(p, files, importCache, packageUsageCache, Disk)
          IN  /\ importCache' = r.ic
              /\ packageUsageCache' = r.uc
              /\ io' = Observe(io, r.log)
              /\ call' = [op |-> "isPackageUsed", packageNames |-> << p >>,
                          files |-> files, results |-> (p :> r.result),
                          fresh |-> CachesEmpty, log |-> r.log]
    /\ calls' = calls + 1
    /\ UNCHANGED << manifest, fs, cwdOk, results, out, pc, run, prev, runs,
                    mainPc, options, exitCode >>

BatchCheckCall ==
    /\ pc = "idle"
    /\ calls < MaxCalls
    /\ \E names \in UsageNameLists, files \in UsageFileLists :
          LET r == batchCheckPackageUsage(names, files, importCache, packageUsageCache, Disk)
          IN  /\ importCache' = r.ic
              /\ packageUsageCache' = r.uc
              /\ io' = Observe(io, r.log)
              /\ call' = [op |-> "batchCheckPackageUsage", packageNames |-> names,
                          files |-> files, results |-> r.results,
                          fresh |-> CachesEmpty, log |-> r.log]
    /\ calls' = calls + 1
    /\ UNCHANGED << manifest, fs, cwdOk, results, out, pc, run, prev, runs,
                    mainPc, options, exitCode >>

InitUsage ==
    /\ manifest = Manifest(NoGroup, NoGroup, NoGroup, NoGroup)
    /\ fs \in { ("a.ts" :> x) @@ ("b.js" :> y) : x \in UsageFiles, y \in SecondFiles }
    /\ cwdOk = TRUE
    /\ importCache = EmptyMap
    /\ packageUsageCache = EmptyMap
    /\ io = NoIo
    /\ results = << >>
    /\ out = << >>
    /\ pc = "idle"
    /\ run = NoRun
    /\ prev = NoPrev
    /\ runs = 0
    /\ call = NoCall
    /\ calls = 0
    /\ mainPc = "off"
    /\ options = NoOptions
    /\ exitCode = "running"

NextUsage ==
    \/ IsPackageUsedCall
    \/ BatchCheckCall
    \/ ClearCachesCall

SpecUsage == InitUsage /\ [][NextUsage]_vars

-----------------------------------------------------------------------------
(* The command line entry point: main() of bin/index.ts                    *)

ArgSets ==
    { {}, { "--all" }, { "--unused" }, { "--heavy" }, { "--unused", "--heavy" },
      { "--outdated", "--duplicates" }, { "--help" }, { "--unused", "--all" },
      { "--github" }, { "--all", "--help" } }

\* bin/index.ts:40-48
parseArguments(args) ==
    [unused     |-> "--unused" \in args,
     outdated   |-> "--outdated" \in args,
     duplicates |-> "--duplicates" \in args,
     heavy      |-> "--heavy" \in args,
     all        |-> "--all" \in args \/ args = {},
     help       |-> "--help" \in args \/ "-h" \in args,
     github     |-> "--github" \in args]

\* bin/index.ts:145-155 with the flags of the single detectors ignored.
Selected_AllOnly(stage) == options.all

\* bin/index.ts:145-155: the detector of a stage runs when all run, or its flag is set.
Selected(stage) == options.all \/ options[stage]

\* bin/index.ts:70-155: the arguments are parsed; help and the GitHub command
\* return at once; otherwise the header is printed and the results cleared.
MainStart ==
    /\ mainPc = "off"
    /\ pc = "idle"
    /\ \E args \in ArgSets :
          LET o == parseArguments(args)
          IN  /\ options' = o
              /\ IF o.help
                 THEN /\ out' = Append(out, Msg("help", "usage"))
                      /\ mainPc' = "exited"
                      /\ exitCode' = "0"
                      /\ UNCHANGED results
                 ELSE IF o.github
                 THEN /\ out' = Append(out, Msg("help", "github usage"))
                      /\ mainPc' = "exited"
                      /\ exitCode' = "0"
                      /\ UNCHANGED results
                 ELSE /\ out' = IF o.all
                               THEN printInfo(Append(out, Msg("header", "report")),
                                              "Running all package detectors...")
                               ELSE Append(out, Msg("header", "report"))
                      /\ results' = << >>
                      /\ mainPc' = "unused"
                      /\ UNCHANGED exitCode
    /\ UNCHANGED << manifest, fs, cwdOk, importCache, packageUsageCache, io, pc, run,
                    prev, runs, call, calls >>

\* bin/index.ts:16 and 151: detectUnusedPackages is awaited, or skipped.
MainUnused ==
    /\ mainPc = "unused"
    /\ IF Selected("unused")
       THEN /\ DetectBegin
            /\ mainPc' = "awaitUnused"
       ELSE /\ mainPc' = "outdated"
            /\ UNCHANGED << manifest, fs, cwdOk, importCache, packageUsageCache, io,
                            results, out, pc, run, prev, runs, call, calls >>
    /\ UNCHANGED << options, exitCode >>

MainDetectStep ==
    /\ mainPc = "awaitUnused"
    /\ DetectStep
    /\ UNCHANGED << mainPc, options, exitCode >>

MainResume ==
    /\ mainPc = "awaitUnused"
    /\ pc = "idle"
    /\ mainPc' = "outdated"
    /\ UNCHANGED << manifest, fs, cwdOk, importCache, packageUsageCache, io, results,
                    out, pc, run, prev, runs, call, calls, options, exitCode >>

ExternalFinding(type, packageName) ==
    [type |-> type, packageName |-> packageName, message |-> << type >>,
     severity |-> "medium", metadata |-> NoMetadata]

\* heavyChecker.ts:47-52 with no package left out.
PackagesToCheck_NoSkip(dependencyNames) == dependencyNames

\* heavyChecker.ts:47-52: packages with a truly-unused finding are not checked.
PackagesToCheck(dependencyNames) ==
    LET unusedPackages ==
            { results[i].packageName : i \in
                { k \in 1..Len(results) :
                     /\ results[k].type = "unused"
                     /\ results[k].metadata.category # "infrastructure" } }
    IN  SelectSeq(dependencyNames, LAMBDA n : n \notin unusedPackages)

\* The first message of each detector (analyzer.ts:57, outdatedChecker.ts:9,
\* duplicateChecker.ts:9, heavyChecker.ts:29).
StartMessage ==
    [unused    |-> "Scanning project files for imports...",
     outdated  |-> "Checking for outdated packages...",
     duplicate |-> "Checking for duplicate packages...",
     heavy     |-> "Checking for heavy packages using Bundlephobia..."]

\* A sibling detector (outdatedChecker.ts:7-88, duplicateChecker.ts:7-59,
\* heavyChecker.ts:27-141): it reads the manifest inside its own try block,
\* stops on an empty manifest, and otherwise reports what the external tool
\* (npm, the size service) answers: nothing, one finding, or a failure.
SiblingDetector(type, label) ==
    LET log == printInfo(out, StartMessage[type])
        r == readPackageJson
        dependencyNames == NamesOf(getAllDependencies(r.pkg))
        toCheck == IF type = "heavy" THEN PackagesToCheck(dependencyNames)
                   ELSE dependencyNames
    IN  IF ~r.ok
        THEN /\ out' = printError(log, label)
             /\ UNCHANGED results
        ELSE IF Len(dependencyNames) = 0
        THEN /\ out' = printInfo(log, "No dependencies found in package.json")
             /\ UNCHANGED results
        ELSE IF Len(toCheck) = 0
        THEN /\ out' = printSuccess(log, "No packages to check for size")
             /\ UNCHANGED results
        ELSE \/ /\ out' = printSuccess(log, label)
                /\ UNCHANGED results
             \/ /\ results' = addResults(results,
                                         << ExternalFinding(type, toCheck[1]) >>)
                /\ out' = printInfo(log, label)
             \/ /\ type # "heavy"
                /\ out' = printError(log, label)
                /\ UNCHANGED results

\* bin/index.ts:17-19 and 152-154
MainSibling ==
    /\ pc = "idle"
    /\ \/ /\ mainPc = "outdated"
          /\ mainPc' = "duplicates"
          /\ IF Selected("outdated")
             THEN SiblingDetector("outdated", "outdated packages")
             ELSE UNCHANGED << results, out >>
       \/ /\ mainPc = "duplicates"
          /\ mainPc' = "heavy"
          /\ IF Selected("duplicates")
             THEN SiblingDetector("duplicate", "duplicate packages")
             ELSE UNCHANGED << results, out >>
       \/ /\ mainPc = "heavy"
          /\ mainPc' = "print"
          /\ IF Selected("heavy")
             THEN SiblingDetector("heavy", "heavy packages")
             ELSE UNCHANGED << results, out >>
    /\ UNCHANGED << manifest, fs, cwdOk, importCache, packageUsageCache, io, pc, run,
                    prev, runs, call, calls, options, exitCode >>

\* bin/index.ts:158 and reporter.ts:35-79: the report is printed and main
\* returns; nothing calls process.exit, so the process ends with status 0.
MainFinish ==
    /\ mainPc = "print"
    /\ out' = Append(out, Msg("report",
                              IF results = << >> THEN "No issues detected"
                              ELSE "Summary"))
    /\ mainPc' = "exited"
    /\ exitCode' = "0"
    /\ UNCHANGED << manifest, fs, cwdOk, importCache, packageUsageCache, io, results,
                    pc, run, prev, runs, call, calls, options >>

NextCli ==
    \/ MainStart
    \/ MainUnused
    \/ MainDetectStep
    \/ MainResume
    \/ MainSibling
    \/ MainFinish

SpecCli == Init /\ [][NextCli]_vars

-----------------------------------------------------------------------------
(* The extractor and the resolver called in any order while the files      *)
(* change (utils.ts:136-169, 247-335)                                      *)

MaxLookups == 3     \* calls made between two cache clears

CacheNames     == { N_lo, N_s_n }
CacheFileLists == { << "a.ts" >>, << "a.ts", "b.js" >> }

LookupExtract ==
    /\ \E f \in Paths :
          LET e == extractImports(f, importCache, Disk)
          IN  /\ importCache' = e.ic
              /\ io' = Observe(io, << Lookup(f, e, 0) >>)
    /\ UNCHANGED packageUsageCache

LookupIsPackageUsed ==
    \E p \in CacheNames, files \in CacheFileLists :
        LET r == isPackageUsed(p, files, importCache, packageUsageCache, Disk)
        IN  /\ importCache' = r.ic
            /\ packageUsageCache' = r.uc
            /\ io' = Observe(io, r.log)

LookupBatch ==
    \E files \in CacheFileLists :
        LET r == batchCheckPackageUsage(<< N_lo, N_s_n >>, files,
                                        importCache, packageUsageCache, Disk)
        IN  /\ importCache' = r.ic
            /\ packageUsageCache' = r.uc
            /\ io' = Observe(io, r.log)

\* One call of an exported lookup operation by a user of the library.
LookupCall(op) ==
    /\ pc = "idle"
    /\ calls < MaxLookups
    /\ op
    /\ calls' = calls + 1
    /\ UNCHANGED << manifest, fs, cwdOk, results, out, pc, run, prev, runs, call,
                    mainPc, options, exitCode >>

ExtractImportsCall == LookupCall(LookupExtract)
UsedCall           == LookupCall(LookupIsPackageUsed)
BatchCall          == LookupCall(LookupBatch)

InitCache ==
    /\ manifest = Manifest(NoGroup, NoGroup, NoGroup, NoGroup)
    /\ fs \in [Paths -> WriteFiles]
    /\ cwdOk = TRUE
    /\ importCache = EmptyMap
    /\ packageUsageCache = EmptyMap
    /\ io = NoIo
    /\ results = << >>
    /\ out = << >>
    /\ pc = "idle"
    /\ run = NoRun
    /\ prev = NoPrev
    /\ runs = 0
    /\ call = NoCall
    /\ calls = 0
    /\ mainPc = "off"
    /\ options = NoOptions
    /\ exitCode = "running"

NextCache ==
    \/ ExtractImportsCall
    \/ UsedCall
    \/ BatchCall
    \/ ClearCachesCall
    \/ WriteFile
    \/ RemoveCwd

SpecCache == InitCache /\ [][NextCache]_vars

-----------------------------------------------------------------------------
(* The extractor called on files written in every statement form           *)
(* (utils.ts:136-169)                                                      *)

InitExtract ==
    /\ manifest = Manifest(NoGroup, NoGroup, NoGroup, NoGroup)
    /\ fs \in { ("a.ts" :> x) @@ ("b.js" :> y) :
                   x \in ExtractFiles, y \in { Absent, File(<< Import(N_lo) >>) } }
    /\ cwdOk = TRUE
    /\ importCache = EmptyMap
    /\ packageUsageCache = EmptyMap
    /\ io = NoIo
    /\ results = << >>
    /\ out = << >>
    /\ pc = "idle"
    /\ run = NoRun
    /\ prev = NoPrev
    /\ runs = 0
    /\ call = NoCall
    /\ calls = 0
    /\ mainPc = "off"
    /\ options = NoOptions
    /\ exitCode = "running"

NextExtract ==
    \/ ExtractImportsCall
    \/ ClearCachesCall

SpecExtract == InitExtract /\ [][NextExtract]_vars

-----------------------------------------------------------------------------
(* The locator called on directory trees (utils.ts:85-131), and the        *)
(* extractor called on the files of the working directory                  *)

\* Names of directory entries
D_src          == << "s", "r", "c" >>
D_node_modules == << "n", "o", "d", "e", "_", "m", "o", "d", "u", "l", "e", "s" >>
D_git          == << ".", "g", "i", "t" >>
D_Dist         == << "D", "i", "s", "t" >>
D_lib          == << "l", "i", "b" >>
D_up           == << "u", "p" >>
F_c_TS         == << "c", ".", "T", "S" >>
F_d_txt        == << "d", ".", "t", "x", "t" >>
F_dot_ts       == << ".", "t", "s" >>

\* A project directory holding a sub-directory, a file and a second
\* sub-directory with one source file, in readdirSync order.
TreeOf(dname, dnode, fname, fnode) ==
    [root |-> 1,
     nodes |-> (1 :> DirNode(<< Entry(dname, 2), Entry(fname, 3), Entry(D_lib, 4) >>))
               @@ (2 :> dnode) @@ (3 :> fnode)
               @@ (4 :> DirNode(<< Entry(NameOf["b.js"], 5) >>))
               @@ (5 :> FileNode)]

\* What the first sub-directory may be: a directory with a source file, a
\* directory readdirSync fails on, an entry statSync fails on; or a
\* directory holding a link to the project directory, or to itself.
SubDirs ==
    { DirNode(<< Entry(NameOf["a.ts"], 5) >>), LockedDirNode, BrokenNode }
LinkDirs ==
    { DirNode(<< Entry(NameOf["a.ts"], 5), Entry(D_up, 1) >>),
      DirNode(<< Entry(D_up, 2), Entry(F_c_TS, 5) >>) }

\* n nested directories, each holding one source file.
ChainTree(n) ==
    [root |-> 1,
     nodes |-> [i \in 1..(n + 1) |->
                  IF i = n + 1 THEN FileNode
                  ELSE IF i = n THEN DirNode(<< Entry(NameOf["a.ts"], n + 1) >>)
                  ELSE DirNode(<< Entry(NameOf["a.ts"], n + 1),
                                  Entry(D_src, i + 1) >>)]]

Trees ==
    { TreeOf(dname, dnode, F_c_TS, FileNode) :
        dname \in { D_src, D_node_modules, D_git, D_Dist }, dnode \in SubDirs }
    \cup { TreeOf(D_src, LockedDirNode, fname, fnode) :
             fname \in { NameOf["a.ts"], F_c_TS, F_d_txt, F_dot_ts },
             fnode \in { FileNode, SpecialNode, BrokenNode } }
    \cup { TreeOf(dname, dnode, F_c_TS, FileNode) :
             dname \in { D_src, D_Dist }, dnode \in LinkDirs }
    \cup { ChainTree(MaxDepth + 3),
           [root |-> 1, nodes |-> (1 :> LockedDirNode)],
           [root |-> 1, nodes |-> (1 :> FileNode)] }

\* The arguments of a call: the defaults, or lists of the caller's own.
ExtensionLists == { Extensions, { << ".", "t", "s" >> }, { << ".", "T", "S" >> } }
ExcludeLists   == { ExcludeDirs, { D_src, D_Dist } }

\* findProjectFiles(extensions, excludeDirs) called by a user of the library
\* in a project directory shaped as tree: the arguments are bound and
\* scanDirectory is called on the root (utils.ts:85-129).
FindProjectFilesCall ==
    /\ pc = "idle"
    /\ \E tree \in Trees, extensions \in ExtensionLists, excludeDirs \in ExcludeLists :
          call' = [op |-> "findProjectFiles", tree |-> tree,
                   extensions |-> extensions, excludeDirs |-> excludeDirs,
                   walk |-> StartWalk(tree)]
    /\ pc' = "scanDirectory"
    /\ UNCHANGED << manifest, fs, cwdOk, importCache, packageUsageCache, io,
                    results, out, run, prev, runs, calls, mainPc, options,
                    exitCode >>

\* One step of the walk; findProjectFiles returns (line 130) when the first
\* scanDirectory call has.
ScanDirectoryStep ==
    /\ pc = "scanDirectory"
    /\ LET w == scanDirectory(call.tree.nodes,
                              [extensions |-> call.extensions,
                               excludeDirs |-> call.excludeDirs],
                              call.walk)
       IN  /\ call' = [call EXCEPT !.walk = w]
           /\ pc' = IF w.stack = << >> THEN "idle" ELSE "scanDirectory"
    /\ UNCHANGED << manifest, fs, cwdOk, importCache, packageUsageCache, io,
                    results, out, run, prev, runs, calls, mainPc, options,
                    exitCode >>

InitTree ==
    /\ manifest = Manifest(NoGroup, NoGroup, NoGroup, NoGroup)
    /\ fs \in { ("a.ts" :> x) @@ ("b.js" :> File(<< Require(N_lo) >>)) :
                   x \in { Absent, Unreadable } }
    /\ cwdOk = TRUE
    /\ importCache = EmptyMap
    /\ packageUsageCache = EmptyMap
    /\ io = NoIo
    /\ results = << >>
    /\ out = << >>
    /\ pc = "idle"
    /\ run = NoRun
    /\ prev = NoPrev
    /\ runs = 0
    /\ call = NoCall
    /\ calls = 0
    /\ mainPc = "off"
    /\ options = NoOptions
    /\ exitCode = "running"

NextTree ==
    \/ FindProjectFilesCall
    \/ ScanDirectoryStep

\* A call that has begun runs on: the walk is synchronous and nothing else
\* runs until it returns.
SpecTree == InitTree /\ [][NextTree]_vars /\ WF_vars(ScanDirectoryStep)

\* The locator and the extractor called in any order.
NextScan ==
    \/ FindProjectFilesCall
    \/ ScanDirectoryStep
    \/ ExtractImportsCall

SpecScan == InitTree /\ [][NextScan]_vars

-----------------------------------------------------------------------------
(* The manifest reader called directly (utils.ts:51-80)                    *)

ManifestGroups ==
    { NoGroup, Group(<< >>), Group(<< Dep(N_lo, V1) >>),
      Group(<< Dep(N_lo, V2), Dep(N_jest, V1) >>) }

ManifestsRead ==
    { ManifestAbsent, ManifestCorrupt, ManifestUnreadable }
    \cup { Manifest(d, dev, peer, opt) : d, dev, peer, opt \in ManifestGroups }

\* package.json is written, replaced or deleted.
WriteManifest ==
    /\ pc = "idle"
    /\ cwdOk
    /\ \E m \in ManifestsRead : m # manifest /\ manifest' = m
    /\ call' = NoCall
    /\ prev' = [prev EXCEPT !.same = FALSE]
    /\ UNCHANGED << fs, cwdOk, importCache, packageUsageCache, io, results, out, pc,
                    run, runs, calls, mainPc, options, exitCode >>

ReadPackageJsonCall ==
    /\ pc = "idle"
    /\ LET r == readPackageJson
       IN  call' = [op |-> "readPackageJson", ok |-> r.ok, error |-> r.error,
                    value |-> r.pkg]
    /\ UNCHANGED << manifest, fs, cwdOk, importCache, packageUsageCache, io, results,
                    out, pc, run, prev, runs, calls, mainPc, options, exitCode >>

\* utils.ts:69-80: the manifest is read first (line 70); its error propagates.
GetAllDependenciesCall ==
    /\ pc = "idle"
    /\ LET r == readPackageJson
       IN  call' = [op |-> "getAllDependencies", ok |-> r.ok, error |-> r.error,
                    value |-> IF r.ok THEN getAllDependencies(r.pkg) ELSE Thrown]
    /\ UNCHANGED << manifest, fs, cwdOk, importCache, packageUsageCache, io, results,
                    out, pc, run, prev, runs, calls, mainPc, options, exitCode >>

InitManifest ==
    /\ manifest \in ManifestsRead
    /\ fs = [p \in Paths |-> Absent]
    /\ cwdOk = TRUE
    /\ importCache = EmptyMap
    /\ packageUsageCache = EmptyMap
    /\ io = NoIo
    /\ results = << >>
    /\ out = << >>
    /\ pc = "idle"
    /\ run = NoRun
    /\ prev = NoPrev
    /\ runs = 0
    /\ call = NoCall
    /\ calls = 0
    /\ mainPc = "off"
    /\ options = NoOptions
    /\ exitCode = "running"

NextManifest ==
    \/ ReadPackageJsonCall
    \/ GetAllDependenciesCall
    \/ WriteManifest
    \/ RemoveCwd

SpecManifest == InitManifest /\ [][NextManifest]_vars

-----------------------------------------------------------------------------
(* Properties of detectUnusedPackages                                      *)

FindingsFor(n) == { i \in 1..Len(run.findings) : run.findings[i].packageName = n }

IsTrulyUnusedFinding(f) == f.metadata.category = "none"
IsInfrastructureFinding(f) == f.metadata.category = "infrastructure"

RunSucceeded == pc = "done" /\ run.outcome = "ok"

\* C1: after a successful run on a non-empty manifest every declared package
\* is used with no finding, or has exactly one truly-unused finding, or has
\* exactly one infrastructure finding; no finding names an undeclared package
\* and the reporter received exactly these findings.
C1_PartitionComplete ==
    RunSucceeded =>
        /\ \A n \in DeclaredNames(manifest) :
              /\ n \in DOMAIN run.usageResults
              /\ \/ run.usageResults[n] /\ FindingsFor(n) = {}
                 \/ /\ ~run.usageResults[n]
                    /\ Cardinality(FindingsFor(n)) = 1
                    /\ \A i \in FindingsFor(n) :
                          IsTrulyUnusedFinding(run.findings[i])
                 \/ /\ ~run.usageResults[n]
                    /\ Cardinality(FindingsFor(n)) = 1
                    /\ \A i \in FindingsFor(n) :
                          IsInfrastructureFinding(run.findings[i])
        /\ \A i \in 1..Len(run.findings) :
              run.findings[i].packageName \in DeclaredNames(manifest)
        /\ results = run.startResults \o run.findings

\* A successful run with a used, a truly unused and an infrastructure package,
\* one of them declared in two dependency groups.
C1_Witness ==
    /\ RunSucceeded
    /\ \E a, b, c \in DeclaredNames(manifest) :
          /\ run.usageResults[a]
          /\ \E i \in FindingsFor(b) : IsTrulyUnusedFinding(run.findings[i])
          /\ \E i \in FindingsFor(c) : IsInfrastructureFinding(run.findings[i])
    /\ \E i \in 1..Len(manifest.dependencies.entries),
          j \in 1..Len(manifest.devDependencies.entries) :
          manifest.dependencies.entries[i].name = manifest.devDependencies.entries[j].name

\* C2: a package whose usage verdict is true receives no finding, whether or
\* not the classifier would call it infrastructure.
C2_UsedNeverReported ==
    RunSucceeded =>
        \A n \in DOMAIN run.usageResults :
            run.usageResults[n] =>
                /\ FindingsFor(n) = {}
                /\ \A i \in (Len(run.startResults) + 1)..Len(results) :
                      results[i].packageName # n

\* A successful run in which a table-listed package and an @types/ package are
\* both referenced in the sources.
C2_Witness ==
    /\ RunSucceeded
    /\ \E n, m \in DOMAIN run.usageResults :
          /\ run.usageResults[n] /\ n \in DOMAIN INFRASTRUCTURE_PACKAGES
          /\ run.usageResults[m] /\ startsWith(m, TypesPrefix)

\* C6: a run that follows another run with no change to the manifest or the
\* file tree in between yields the same set of findings.
C6_Idempotent ==
    (pc = "done" /\ prev.ran /\ prev.same) =>
        Range(run.findings) = prev.findings

\* The second of two runs over an unchanged project, with findings.
C6_Witness ==
    /\ RunSucceeded
    /\ prev.ran /\ prev.same
    /\ run.findings # << >>

\* The matching rule for one package name and one import reference.
MatchRule(p, ref) ==
    \/ ref = p
    \/ startsWith(ref, p \o << "/" >>)
    \/ startsWith(p, << "@" >>) /\ startsWith(ref, p)

\* The import references written in a file on disk: the quoted paths of its
\* import statements and of its require calls with a literal argument.
RefsOnDisk(path) ==
    IF fs[path].st # "file" THEN {}
    ELSE { fs[path].content[k].path : k \in
             { j \in 1..Len(fs[path].content) :
                  fs[path].content[j].form \in { "import", "require" } } }

RefsIn(files) == UNION { RefsOnDisk(files[i]) : i \in 1..Len(files) }

\* What a fresh process computes from the manifest and the files on disk.
FreshVerdicts ==
    [n \in DeclaredNames(manifest) |->
        \E p \in Paths : \E ref \in RefsOnDisk(p) : MatchRule(n, ref)]

FreshFindings ==
    { UnusedFinding(n) : n \in { d \in DeclaredNames(manifest) :
          ~FreshVerdicts[d] /\ ~isInfrastructurePackage(d).isInfra } }
    \cup { InfraFinding(n, isInfrastructurePackage(n).reason) :
              n \in { d \in DeclaredNames(manifest) :
                        ~FreshVerdicts[d] /\ isInfrastructurePackage(d).isInfra } }

\* C7: whatever earlier runs cached, the verdicts and findings of a run are
\* those computed from the manifest and file contents present at that run.
C7_RunIsFresh ==
    (RunSucceeded /\ cwdOk) =>
        /\ run.usageResults = FreshVerdicts
        /\ Range(run.findings) = FreshFindings
        /\ Len(run.findings) = Cardinality(FreshFindings)

\* A run whose verdicts differ from those of the run before it, the files
\* having changed in between.
C7_Witness ==
    /\ RunSucceeded /\ cwdOk
    /\ prev.ran /\ ~prev.same
    /\ prev.verdicts # run.usageResults
    /\ Len(run.projectFiles) = Cardinality(DOMAIN importCache)
    /\ \E n \in DOMAIN run.usageResults : run.usageResults[n] /\ ~prev.verdicts[n]
    /\ \E n \in DOMAIN run.usageResults : ~run.usageResults[n] /\ prev.verdicts[n]

\* C9: a run that fails while reading the manifest or locating the files
\* reports one error, adds nothing to the reporter and settles normally (it
\* ends in "done" like every other run); and in every run the reporter changes
\* only once every declared package has its verdict.
C9_ErrorsCaught ==
    /\ run.outcome = "error" =>
          /\ pc = "done"
          /\ CountKind(out, "error") = 1
          /\ run.addCalls = 0
          /\ results = run.startResults
    /\ (pc # "idle" /\ results # run.startResults) =>
          /\ pc = "done"
          /\ run.addCalls = 1
          /\ \A n \in DeclaredNames(manifest) : n \in DOMAIN run.usageResults

\* A run that read its manifest and then failed to locate the files, with
\* findings of an earlier run in the reporter.
C9_Witness ==
    /\ pc = "done" /\ run.outcome = "error"
    /\ run.dependencyNames # << >>
    /\ run.startResults # << >>

\* C10: with zero declared dependencies a run adds no findings, scans no
\* file, reports "No dependencies found" and no success message.
C10_EmptyManifest ==
    (pc = "done" /\ run.outcome # "error" /\ DeclaredNames(manifest) = {}) =>
        /\ run.outcome = "empty"
        /\ results = run.startResults
        /\ run.addCalls = 0
        /\ ~run.scanned
        /\ importCache = EmptyMap
        /\ Msg("info", "No dependencies found in package.json") \in Range(out)
        /\ CountKind(out, "success") = 0

\* A run over a manifest whose dependency group is present and empty, in a
\* project that has source files.
C10_Witness ==
    /\ pc = "done" /\ run.outcome = "empty"
    /\ manifest.dependencies.present

\* The findings the current run handed to the reporter.
Emitted == { results[i] : i \in (Len(run.startResults) + 1)..Len(results) }

GenericMessage == << "Not imported anywhere in the project" >>
GenericTypesReason == "Type definitions - needed for TypeScript support"

\* C11: every finding of a run has type 'unused'; the finding of a package the
\* classifier calls infrastructure has severity 'low', the classifier's
\* justification in its message and metadata.category = 'infrastructure'; the
\* finding of any other package has severity 'medium', the generic message
\* and no metadata.
C11_FindingShape ==
    RunSucceeded =>
        /\ Emitted = Range(run.findings)
        /\ \A f \in Emitted :
              LET c == isInfrastructurePackage(f.packageName)
              IN  /\ f.type = "unused"
                  /\ IF c.isInfra
                     THEN /\ f.severity = "low"
                          /\ f.message = << "Infrastructure package: ", c.reason >>
                          /\ f.metadata.category = "infrastructure"
                          /\ f.metadata.reason = c.reason
                     ELSE /\ f.severity = "medium"
                          /\ f.message = GenericMessage
                          /\ f.metadata = NoMetadata

\* A run that emitted a finding of each kind.
C11_Witness ==
    /\ RunSucceeded
    /\ \E f, g \in Emitted :
          /\ f.severity = "low" /\ f.packageName \in DOMAIN INFRASTRUCTURE_PACKAGES
          /\ g.severity = "medium"

TypesFindings ==
    { f \in Range(run.findings) : startsWith(f.packageName, TypesPrefix) }

UnreferencedTypes ==
    { n \in DOMAIN run.usageResults :
         startsWith(n, TypesPrefix) /\ ~run.usageResults[n] }

\* C12 as stated: every unreferenced '@types/' package gets an infrastructure
\* finding and no truly-unused finding, and '@types/node' is not in the static
\* table, so that its finding carries the generic justification of the
\* prefix rule.
C12_TypesNodeByPrefixRule ==
    RunSucceeded =>
        /\ \A n \in UnreferencedTypes :
              \E f \in TypesFindings : f.packageName = n
        /\ \A f \in TypesFindings :
              /\ IsInfrastructureFinding(f)
              /\ f.packageName = N_types_node =>
                    /\ N_types_node \notin DOMAIN INFRASTRUCTURE_PACKAGES
                    /\ f.metadata.reason = GenericTypesReason

\* C12 amended: every unreferenced '@types/' package gets exactly one
\* infrastructure finding and no truly-unused finding; the finding carries the
\* table's justification when the name is listed in the table ('@types/node',
\* '@types/jest') and the generic type-definitions justification of the
\* prefix rule otherwise.
C12_TypesAlwaysInfrastructure ==
    RunSucceeded =>
        /\ \A n \in UnreferencedTypes :
              /\ Cardinality({ i \in FindingsFor(n) :
                                 IsInfrastructureFinding(run.findings[i]) }) = 1
              /\ Cardinality(FindingsFor(n)) = 1
        /\ \A f \in TypesFindings :
              /\ IsInfrastructureFinding(f)
              /\ f.metadata.reason =
                    IF f.packageName \in DOMAIN INFRASTRUCTURE_PACKAGES
                    THEN INFRASTRUCTURE_PACKAGES[f.packageName]
                    ELSE GenericTypesReason
        /\ N_types_node \in DOMAIN INFRASTRUCTURE_PACKAGES
        /\ INFRASTRUCTURE_PACKAGES[N_types_node] # GenericTypesReason

\* A run with findings for '@types/node' (listed) and for an '@types/' package
\* that is not listed.
C12_Witness ==
    /\ RunSucceeded
    /\ \E f, g \in TypesFindings :
          /\ f.packageName = N_types_node
          /\ g.packageName \notin DOMAIN INFRASTRUCTURE_PACKAGES
    /\ \E p \in Paths : fs[p].st = "file"

-----------------------------------------------------------------------------
(* Properties of the usage resolver                                        *)

\* C3: from empty caches, isPackageUsed(p, files) is true exactly when some
\* reference of some listed file equals p, begins with p + "/", or, for p
\* beginning with "@", begins with p.
C3_MatchingRule ==
    (call.op = "isPackageUsed" /\ call.fresh) =>
        LET p == call.packageNames[1]
        IN  call.results[p] = (\E ref \in RefsIn(call.files) : MatchRule(p, ref))

\* A call answered true by an exact reference found in the second listed file,
\* the first file holding a reference that does not match.
C3_Witness ==
    /\ call.op = "isPackageUsed" /\ call.fresh
    /\ Len(call.files) = 2
    /\ call.results[call.packageNames[1]]
    /\ call.packageNames[1] \in RefsOnDisk(call.files[2])
    /\ RefsOnDisk(call.files[1]) # {}
    /\ \A ref \in RefsOnDisk(call.files[1]) : ~MatchRule(call.packageNames[1], ref)

\* C4 as stated: a reference p + "/x" makes isPackageUsed(p, files) true, and
\* a file list whose only references have p as a proper string prefix that is
\* not followed by "/" makes it false.
C4_SubPathProperty ==
    call.op = "isPackageUsed" =>
        LET p == call.packageNames[1]
            refs == RefsIn(call.files)
        IN  /\ (\E ref \in refs :
                   startsWith(ref, p \o << "/" >>) /\ Len(ref) > Len(p) + 1)
                   => call.results[p]
            /\ (/\ refs # {}
                /\ \A ref \in refs :
                      /\ startsWith(ref, p)
                      /\ Len(ref) > Len(p)
                      /\ ref[Len(p) + 1] # "/")
                   => ~call.results[p]

\* The package an import reference names: "@scope/name" for a scoped
\* reference, the first path segment otherwise.
SlashesOf(ref) == { i \in 1..Len(ref) : ref[i] = "/" }
Least(S) == CHOOSE i \in S : \A j \in S : i <= j
ScopeOf(ref) ==
    IF SlashesOf(ref) = {} THEN ref ELSE SubSeq(ref, 1, Least(SlashesOf(ref)) - 1)
PackageOf(ref) ==
    LET sl == SlashesOf(ref)
        after == IF sl = {} THEN {} ELSE sl \ { Least(sl) }
    IN  IF sl = {} THEN ref
        ELSE IF ~startsWith(ref, << "@" >>) THEN SubSeq(ref, 1, Least(sl) - 1)
        ELSE IF after = {} THEN ref
        ELSE SubSeq(ref, 1, Least(after) - 1)

IsScoped(p) == startsWith(p, << "@" >>) /\ SlashesOf(p) # {}

\* C5 as stated: for a scoped package p a reference p or p + "/sub" gives
\* used = true, and a file list whose only references name other packages of
\* the same scope gives used = false, in both forms of the resolver.
C5_ScopedProperty ==
    call.op \in { "isPackageUsed", "batchCheckPackageUsage" } =>
        \A p \in { n \in Range(call.packageNames) : IsScoped(n) } :
            LET refs == RefsIn(call.files)
            IN  /\ (\E ref \in refs : ref = p \/ startsWith(ref, p \o << "/" >>))
                       => call.results[p]
                /\ (/\ refs # {}
                    /\ \A ref \in refs :
                          /\ ScopeOf(ref) = ScopeOf(p)
                          /\ PackageOf(ref) # p)
                       => ~call.results[p]

-----------------------------------------------------------------------------
(* Properties of the command line tool                                     *)

\* C8 as stated: an invocation that runs the unused-package detector with the
\* manifest file absent emits exactly one error message, leaves the reporter
\* without findings and ends with a non-zero exit status.
C8_ManifestAbsentExit ==
    (/\ mainPc = "exited" /\ ~manifest.exists
     /\ ~options.help /\ ~options.github /\ Selected("unused")) =>
        /\ CountKind(out, "error") = 1
        /\ results = << >>
        /\ exitCode # "0"

-----------------------------------------------------------------------------
(* Properties of the manifest reader                                       *)

\* The version ranges the groups of manifest m declare for name n.
DeclaredRanges(m, n) ==
    UNION { { g.entries[i].range :
                 i \in { k \in 1..Len(g.entries) : g.entries[k].name = n } } :
            g \in { m.dependencies, m.devDependencies,
                    m.peerDependencies, m.optionalDependencies } }

GroupsOf(m) ==
    << m.dependencies, m.devDependencies, m.peerDependencies, m.optionalDependencies >>

\* C15: getAllDependencies returns a flat mapping (no key twice) whose keys
\* are exactly the names declared in the groups present in the manifest, each
\* with a version range that one of the groups declaring it gives it.
C15_MergedDependencies ==
    (call.op = "getAllDependencies" /\ call.ok) =>
        LET deps == call.value
        IN  /\ { deps[i].name : i \in 1..Len(deps) } =
                  UNION { { g.entries[k].name : k \in 1..Len(g.entries) } :
                            g \in { x \in Range(GroupsOf(manifest)) : x.present } }
            /\ \A i, j \in 1..Len(deps) : deps[i].name = deps[j].name => i = j
            /\ \A i \in 1..Len(deps) :
                  deps[i].range \in DeclaredRanges(manifest, deps[i].name)

\* A merge of a manifest with an absent group, in which one name is declared
\* with different ranges by two groups and another by the optional group only.
C15_Witness ==
    /\ call.op = "getAllDependencies" /\ call.ok
    /\ \E i \in 1..4 : ~GroupsOf(manifest)[i].present
    /\ \E i \in 1..Len(call.value) :
          Cardinality(DeclaredRanges(manifest, call.value[i].name)) = 2
    /\ \E i \in 1..Len(call.value) :
          \A k \in 1..3 : \A e \in Range(GroupsOf(manifest)[k].entries) :
              e.name # call.value[i].name

-----------------------------------------------------------------------------
(* Properties of the caches and of the scan order                          *)

\* The positions in files of the files that hold a reference matching p.
HitFiles(p, files) ==
    { j \in 1..Len(files) : \E ref \in RefsOnDisk(files[j]) : MatchRule(p, ref) }

\* C14: a call isPackageUsed(p, files) extracts files[1], files[2], ... in
\* order and stops at the first matching reference: no file after the first
\* file holding a match is extracted or read, and within every file no
\* reference after the first matching one is tested.
C14_ShortCircuit ==
    call.op = "isPackageUsed" =>
        LET p == call.packageNames[1]
            log == call.log
            hit == HitFiles(p, call.files)
        IN  /\ Len(log) <= Len(call.files)
            /\ \A j \in 1..Len(log) :
                  /\ log[j].file = call.files[j]
                  /\ log[j].tested <= Len(log[j].imports)
                  /\ \A k \in 1..(log[j].tested - 1) : ~MatchRule(p, log[j].imports[k])
            /\ hit # {} => Len(log) <= Least(hit)
            /\ call.fresh =>
                  DOMAIN importCache = { log[j].file : j \in 1..Len(log) }

\* A call over two files that found its match in the first reference of the
\* first file: the second reference was not tested and the second file was
\* neither extracted nor read.
C14_Witness ==
    /\ call.op = "isPackageUsed" /\ call.fresh
    /\ Len(call.files) = 2 /\ Len(call.log) = 1
    /\ call.log[1].tested = 1 /\ Len(call.log[1].imports) = 2
    /\ HitFiles(call.packageNames[1], call.files) = { 1, 2 }
    /\ DOMAIN importCache = { call.files[1] }

\* C13: between two cache clears, whatever extractImports, isPackageUsed and
\* batchCheckPackageUsage calls are made and however the files change, each
\* path is read from disk at most once, also when the read fails, and every
\* later lookup of the path returns the list the first lookup returned.
C13_ReadOncePerPath ==
    /\ \A p \in Paths : io.reads[p] <= 1
    /\ io.stable
    /\ \A p \in Paths : io.reads[p] = 1 <=> p \in DOMAIN io.first
    /\ importCache = io.first

\* A path whose read failed and a path whose file was rewritten after it was
\* read, each looked up again since.
C13_Witness ==
    \E f, g \in io.again :
        /\ io.reads[f] = 1 /\ io.reads[g] = 1
        /\ fs[f].st = "unreadable" /\ io.first[f] = << >>
        /\ cwdOk /\ fs[g].st = "file" /\ io.first[g] # ScanImports(fs[g].content)

-----------------------------------------------------------------------------
(* Properties of the import extractor                                      *)

\* C20: the list extractImports returns for a readable file holds, verbatim,
\* the quoted path of every import statement in default, named or namespace
\* form and of every require call whose sole argument is a quoted literal,
\* whichever of the three quote characters delimits it, and nothing for a
\* load whose argument is not a literal.
C20_EveryLiteralLoadExtracted ==
    \A p \in DOMAIN importCache :
        fs[p].st = "file" =>
            LET content == fs[p].content
                returned == Range(importCache[p])
            IN  /\ \A k \in 1..Len(content) :
                      (/\ content[k].form = "import"
                       /\ content[k].kind \in { "default", "named", "namespace" })
                          => content[k].path \in returned
                /\ \A k \in 1..Len(content) :
                      content[k].form = "require" => content[k].path \in returned
                /\ returned \subseteq
                      { content[k].path :
                          k \in { j \in 1..Len(content) : content[j].form # "computed" } }

-----------------------------------------------------------------------------
(* Properties of the source file locator                                   *)

\* The directories of the tree that lie k levels below the root and are
\* reached from it through directories that can be listed and whose names
\* are not excluded.
RECURSIVE ListedAt(_, _, _)
ListedAt(tree, excluded, k) ==
    IF k = 0
    THEN IF tree.nodes[tree.root].kind = "dir" /\ tree.nodes[tree.root].readable
         THEN { [path |-> << >>, node |-> tree.root] }
         ELSE {}
    ELSE UNION { { [path |-> Append(d.path, e.name), node |-> e.node] :
                     e \in { x \in Range(tree.nodes[d.node].entries) :
                               /\ tree.nodes[x.node].kind = "dir"
                               /\ tree.nodes[x.node].readable
                               /\ x.name \notin excluded } } :
                 d \in ListedAt(tree, excluded, k - 1) }

Listed(tree, excluded) == UNION { ListedAt(tree, excluded, k) : k \in 0..MaxDepth }

\* The regular files in the directories of ds whose names satisfy Matches.
FilesIn(tree, ds, Matches(_)) ==
    UNION { { Append(d.path, e.name) :
                e \in { x \in Range(tree.nodes[d.node].entries) :
                          tree.nodes[x.node].kind = "file" /\ Matches(x.name) } } :
            d \in ds }

\* The extension of the name is in the allow-list, whatever the case of
\* either.
InAllowList(name, extensions) ==
    \E x \in extensions : toLowerCase(extname(name)) = toLowerCase(x)

\* findProjectFiles has returned to its caller.
Returned == call.op = "findProjectFiles" /\ pc = "idle"

\* C17: findProjectFiles returns exactly the regular files reachable from the
\* root, within the depth bound, through directories whose names are not
\* excluded, and whose extension compared case-insensitively is in the
\* allow-list; no excluded directory is read and no file beneath one is
\* returned.
C17_ExactlyTheAllowedFiles ==
    /\ Returned =>
          Range(call.walk.files)
             = FilesIn(call.tree, Listed(call.tree, call.excludeDirs),
                       LAMBDA name : InAllowList(name, call.extensions))
    /\ call.op = "findProjectFiles" =>
          /\ \A d \in Range(call.walk.readDirs) :
                \A i \in 1..Len(d) : d[i] \notin call.excludeDirs
          /\ \A f \in Range(call.walk.files) :
                \A i \in 1..(Len(f) - 1) : f[i] \notin call.excludeDirs

\* No directory more than MaxDepth levels below the root has been listed,
\* and once findProjectFiles has returned every directory within the bound
\* has been listed and its files collected.
DepthBounded ==
    call.op = "findProjectFiles" =>
        /\ \A d \in Range(call.walk.readDirs) : Len(d) <= MaxDepth
        /\ \A f \in Range(call.walk.files) : Len(f) <= MaxDepth + 1
        /\ Returned =>
              /\ \A d \in Listed(call.tree, call.excludeDirs) :
                    d.path \in Range(call.walk.readDirs)
              /\ FilesIn(call.tree, Listed(call.tree, call.excludeDirs),
                         LAMBDA name : toLowerCase(extname(name)) \in call.extensions)
                    \subseteq Range(call.walk.files)

\* C18: every call of findProjectFiles returns, on trees with directory
\* cycles too; it never lists a directory more than MaxDepth levels below
\* the root, and where the tree goes on below the bound it returns the
\* files collected within it.
C18_TerminatesWithinDepth ==
    /\ []DepthBounded
    /\ (call.op = "findProjectFiles" /\ pc = "scanDirectory") ~> Returned

\* A call has returned on a tree that goes on below the bound: a directory
\* at the bound was listed, it holds a directory that was not, and files
\* at the bound were returned.
C18_Witness ==
    /\ Returned
    /\ \E d \in ListedAt(call.tree, call.excludeDirs, MaxDepth) :
          /\ d.path \in Range(call.walk.readDirs)
          /\ \E e \in Range(call.tree.nodes[d.node].entries) :
                /\ call.tree.nodes[e.node].kind = "dir"
                /\ e.name \notin call.excludeDirs
                /\ Append(d.path, e.name) \notin Range(call.walk.readDirs)
    /\ \E f \in Range(call.walk.files) : Len(f) = MaxDepth + 1

\* The entries the walk came upon and could not read: the root when it
\* cannot be listed, and in every directory listed each entry statSync
\* fails on and each directory, not excluded and within the bound, that
\* readdirSync fails on.
FailedEntries(tree, excluded) ==
    (IF tree.nodes[tree.root].kind = "dir" /\ tree.nodes[tree.root].readable
     THEN {} ELSE { << >> })
    \cup UNION { { Append(d.path, e.name) :
                     e \in { x \in Range(tree.nodes[d.node].entries) :
                               \/ tree.nodes[x.node].kind = "broken"
                               \/ /\ tree.nodes[x.node].kind = "dir"
                                  /\ ~tree.nodes[x.node].readable
                                  /\ x.name \notin excluded
                                  /\ Len(d.path) < MaxDepth } } :
                 d \in Listed(tree, excluded) }

IsPrefix(s, t) == Len(s) <= Len(t) /\ SubSeq(t, 1, Len(s)) = s

\* C19: a directory or file that cannot be read, during the walk or during
\* import extraction, does not abort the operation: nothing is returned from
\* beneath it, no import is attributed to it, a warning is emitted for it,
\* and every sibling directory and every other file is still processed.
C19_FailuresWarnedAndSkipped ==
    /\ Returned =>
          LET failed == FailedEntries(call.tree, call.excludeDirs)
          IN  /\ \A p \in failed : p \in Range(call.walk.warnings)
              /\ \A p \in failed : \A f \in Range(call.walk.files) : ~IsPrefix(p, f)
              /\ \A d \in Listed(call.tree, call.excludeDirs) :
                    d.path \in Range(call.walk.readDirs)
              /\ FilesIn(call.tree, Listed(call.tree, call.excludeDirs),
                         LAMBDA name : toLowerCase(extname(name)) \in call.extensions)
                    \subseteq Range(call.walk.files)
    /\ \A p \in DOMAIN io.first :
          IF fs[p].st = "file"
          THEN io.first[p] = ScanImports(fs[p].content)
          ELSE io.first[p] = << >> /\ p \in io.warned
-----------------------------------------------------------------------------
(* The reporter across runs in one process                                  *)

\* C21 as stated: when a run of detectUnusedPackages ends, the reporter holds
\* exactly the findings that run produced, none of an earlier run of the
\* same process.
C21_ReporterHoldsOnlyThisRun ==
    (pc = "done" /\ run.outcome = "ok") => results = run.findings

-----------------------------------------------------------------------------
(* The Reporter class on its own, driven by a caller that keeps the array   *)
(* getResults handed out (reporter.ts:11-79, tests/reporter.test.ts:50-126) *)

MaxResults == 2

ReporterInputs ==
    { UnusedFinding(N_lo), ExternalFinding("outdated", N_a_b),
      ExternalFinding("heavy", N_lo) }

ResultLists ==
    { << >> } \cup { << r >> : r \in ReporterInputs }
              \cup { << r, q >> : r, q \in ReporterInputs }

\* reporter.ts:14-16
addResult(list, result) == Append(list, result)

\* reporter.ts:22-24: this.results is bound to a new, empty array.
clearResults == << >>

\* reporter.ts:26-28 returning this.results itself.
getResults_Alias(list) == [array |-> "this.results", elems |-> list]

\* reporter.ts:26-28: a new array holding the elements of this.results.
getResults(list) == [array |-> "copy", elems |-> list]

\* reporter.ts:45-74: one section of the report, printed when not empty.
Section(list, type, header) ==
    LET sel == SelectSeq(list, LAMBDA r : r.type = type)
    IN  IF sel = << >> THEN << >>
        ELSE << Msg("section", header) >>
             \o [i \in 1..Len(sel) |->
                    Msg("line", << sel[i].packageName, sel[i].message >>)]

\* reporter.ts:81-96
printSummary(list) ==
    LET n(type) == Len(SelectSeq(list, LAMBDA r : r.type = type))
        Line(type) == IF n(type) > 0 THEN << Msg("count", << type, n(type) >>) >>
                      ELSE << >>
    IN  << Msg("summary", Len(list)) >>
        \o Line("unused") \o Line("outdated") \o Line("duplicate") \o Line("heavy")

\* reporter.ts:35-79
printResults(list) ==
    IF Len(list) = 0 THEN << Msg("report", "No issues detected") >>
    ELSE Section(list, "unused", "Unused Packages:")
         \o Section(list, "outdated", "Outdated Packages:")
         \o Section(list, "duplicate", "Duplicate Packages:")
         \o Section(list, "heavy", "Heavy Packages:")
         \o printSummary(list)

NoArray == [array |-> "none", elems |-> << >>]

\* The elements of the array a handle denotes.
Elems(h) == IF h.array = "this.results" THEN results ELSE h.elems

\* call holds the caller's side: the results it added since its last
\* clearResults, the array getResults handed it, and what its last getResults
\* returned; out holds what the last call printed.
ReporterFrame ==
    UNCHANGED << manifest, fs, cwdOk, importCache, packageUsageCache, io, pc, run,
                 prev, runs, calls, mainPc, options, exitCode >>

AddResult ==
    /\ Len(results) < MaxResults
    /\ \E result \in ReporterInputs :
          /\ results' = addResult(results, result)
          /\ call' = [call EXCEPT !.op = "addResult", !.value = << >>,
                                  !.added = Append(@, result)]
    /\ out' = << >>
    /\ ReporterFrame

AddResults ==
    /\ \E list \in ResultLists :
          /\ Len(results) + Len(list) <= MaxResults
          /\ results' = addResults(results, list)
          /\ call' = [call EXCEPT !.op = "addResults", !.value = << >>,
                                  !.added = @ \o list]
    /\ out' = << >>
    /\ ReporterFrame

\* The array a handle denoted before the assignment stays what it was.
ClearResults ==
    /\ results' = clearResults
    /\ call' = [call EXCEPT !.op = "clearResults", !.value = << >>,
                            !.added = << >>, !.cleared = TRUE,
                            !.returned = IF @.array = "this.results"
                                         THEN [array |-> "copy", elems |-> results]
                                         ELSE @]
    /\ out' = << >>
    /\ ReporterFrame

GetResults ==
    /\ call' = [call EXCEPT !.op = "getResults", !.returned = getResults(results),
                            !.value = results]
    /\ out' = << >>
    /\ UNCHANGED results
    /\ ReporterFrame

\* The caller changes the array it was handed: push, pop, an element
\* assignment, or length = 0.
MutateReturned ==
    /\ call.returned.array # "none"
    /\ LET h == call.returned
           old == Elems(h)
       IN  \E new \in { Append(old, r) : r \in ReporterInputs }
                      \cup { [old EXCEPT ![1] = r] : r \in ReporterInputs }
                      \cup { SubSeq(old, 1, Len(old) - 1), << >> } :
              /\ new # old
              /\ Len(new) <= MaxResults
              /\ IF h.array = "this.results"
                 THEN /\ results' = new
                      /\ call' = [call EXCEPT !.op = "mutate", !.value = << >>,
                                              !.mutated = TRUE]
                 ELSE /\ call' = [call EXCEPT !.op = "mutate", !.value = << >>,
                                              !.mutated = TRUE,
                                              !.returned.elems = new]
                      /\ UNCHANGED results
    /\ out' = << >>
    /\ ReporterFrame

PrintResults ==
    /\ out' = printResults(results)
    /\ call' = [call EXCEPT !.op = "printResults", !.value = << >>]
    /\ UNCHANGED results
    /\ ReporterFrame

InitReporter ==
    /\ manifest = ManifestAbsent
    /\ fs = [p \in Paths |-> Absent]
    /\ cwdOk = TRUE
    /\ importCache = EmptyMap
    /\ packageUsageCache = EmptyMap
    /\ io = NoIo
    /\ results = << >>
    /\ out = << >>
    /\ pc = "idle"
    /\ run = NoRun
    /\ prev = NoPrev
    /\ runs = 0
    /\ call = [op |-> "new Reporter", added |-> << >>, returned |-> NoArray,
               value |-> << >>, mutated |-> FALSE, cleared |-> FALSE]
    /\ calls = 0
    /\ mainPc = "off"
    /\ options = NoOptions
    /\ exitCode = "running"

NextReporter ==
    \/ AddResult
    \/ AddResults
    \/ ClearResults
    \/ GetResults
    \/ MutateReturned
    \/ PrintResults

SpecReporter == InitReporter /\ [][NextReporter]_vars

\* C22: after any sequence of addResult, addResults and clearResults calls the
\* reporter holds, and getResults returns, exactly the results added since
\* the last clearResults, in insertion order; whatever the caller does to an
\* array getResults returned, a later getResults returns and a later
\* printResults prints those same results.
C22_GetResultsIsolated ==
    /\ results = call.added
    /\ call.op = "getResults" => call.value = call.added
    /\ call.op = "printResults" => out = printResults(call.added)

\* getResults after a clear, two additions and a change to an array handed
\* out earlier.
C22_Witness ==
    /\ call.op = "getResults"
    /\ call.cleared /\ call.mutated
    /\ Len(call.value) = 2
    /\ call.value[1].type # call.value[2].type

-----------------------------------------------------------------------------
(* detectHeavyPackages with its batched size lookups (heavyChecker.ts)      *)

MaxHeavyRuns == 2

batchSize == 3

\* heavyChecker.ts:41-45
sizeThresholds ==
    [small |-> 50 * 1024, medium |-> 100 * 1024, large |-> 500 * 1024]

\* What the size service answers to one request.
Bundle(gzip) == [status |-> 200, gzip |-> gzip]
NotFound     == [status |-> 404, gzip |-> 0]
RateLimited  == [status |-> 429, gzip |-> 0]

Responses ==
    { Bundle(sizeThresholds.small), Bundle(sizeThresholds.small + 1),
      NotFound, RateLimited }

NoBundle == [found |-> FALSE, gzip |-> 0]

\* heavyChecker.ts:146-197: the cached answer when there is one, else the
\* answer built from the response; a 200 and a 404 are cached, a 429 (as a
\* timeout or any other failure) is thrown and not cached.
getBundlephobiaInfo(packageName, cache, response) ==
    IF packageName \in DOMAIN cache
    THEN [thrown |-> FALSE, value |-> cache[packageName], cache |-> cache]
    ELSE IF response.status = 200
    THEN LET result == [found |-> TRUE, gzip |-> response.gzip]
         IN  [thrown |-> FALSE, value |-> result,
              cache |-> (packageName :> result) @@ cache]
    ELSE IF response.status = 404
    THEN [thrown |-> FALSE, value |-> NoBundle,
          cache |-> (packageName :> NoBundle) @@ cache]
    ELSE [thrown |-> TRUE, value |-> NoBundle, cache |-> cache]

\* heavyChecker.ts:75-102
HeavyFinding(packageName, bundleInfo) ==
    LET gzipSize == bundleInfo.gzip
    IN  [type |-> "heavy", packageName |-> packageName,
         message |-> << IF gzipSize > sizeThresholds.large THEN "Very large package"
                        ELSE IF gzipSize > sizeThresholds.medium THEN "Large package"
                        ELSE "Medium package" >>,
         severity |-> IF gzipSize > sizeThresholds.large THEN "high"
                      ELSE IF gzipSize > sizeThresholds.medium THEN "medium"
                      ELSE "low",
         metadata |-> [gzip |-> gzipSize]]

\* heavyChecker.ts:72-111: what the callback of one package resolves to once
\* its lookup has settled: "none" stands for null.
BatchResult(packageName, info) ==
    IF ~info.thrown /\ info.value.found /\ info.value.gzip > sizeThresholds.small
    THEN [status |-> "heavy", finding |-> HeavyFinding(packageName, info.value)]
    ELSE [status |-> "none", finding |-> HeavyFinding(packageName, NoBundle)]

Pending == [status |-> "pending", finding |-> HeavyFinding(<< >>, NoBundle)]

\* heavyChecker.ts:60-65 with everything in one batch.
Batches_Whole(packagesToCheck) == << packagesToCheck >>

\* heavyChecker.ts:60-65
Batches(packagesToCheck) ==
    [k \in 1..((Len(packagesToCheck) + batchSize - 1) \div batchSize) |->
        SubSeq(packagesToCheck, (k - 1) * batchSize + 1,
               IF k * batchSize < Len(packagesToCheck) THEN k * batchSize
               ELSE Len(packagesToCheck))]

NoHeavy ==
    [op |-> "none", stage |-> "returned", bundlephobiaCache |-> EmptyMap,
     packagesToCheck |-> << >>, batches |-> << >>, batch |-> 0,
     batchPromises |-> << >>, heavyPackages |-> << >>, started |-> << >>,
     startResults |-> << >>]

\* heavyChecker.ts:67-72: batch.map calls the callback of every package of
\* the batch; each runs up to its await, so each lookup has begun (served
\* from the cache, or a request is on its way) when Promise.all is awaited.
StartBatch(c, k, log) ==
    LET batch == c.batches[k]
        Begun(packageName) ==
            IF packageName \in DOMAIN c.bundlephobiaCache
            THEN BatchResult(packageName,
                             getBundlephobiaInfo(packageName, c.bundlephobiaCache,
                                                 NotFound))
            ELSE Pending
    IN  [c |-> [c EXCEPT !.stage = "lookups", !.batch = k,
                         !.batchPromises = [i \in 1..Len(batch) |-> Begun(batch[i])],
                         !.started = @ \o batch],
         log |-> log \o [i \in 1..Len(batch) |-> Msg("info", "Checking size for")]]

HeavyFrame ==
    UNCHANGED << manifest, fs, cwdOk, importCache, packageUsageCache, io, pc, run,
                 prev, runs, mainPc, options, exitCode >>

\* heavyChecker.ts:27-72 and 138-140: up to the first await.
HeavyBegin ==
    /\ pc = "idle"
    /\ call.stage = "returned"
    /\ calls < MaxHeavyRuns
    /\ calls' = calls + 1
    /\ LET log == printInfo(<< >>, "Checking for heavy packages using Bundlephobia...")
           r == readPackageJson
           dependencyNames == NamesOf(getAllDependencies(r.pkg))
           packagesToCheck == PackagesToCheck(dependencyNames)
           c == [NoHeavy EXCEPT !.op = "detectHeavyPackages",
                                !.bundlephobiaCache = call.bundlephobiaCache,
                                !.startResults = results]
       IN  IF ~r.ok
           THEN /\ out' = printError(log, "Failed to detect heavy packages")
                /\ call' = c
           ELSE IF Len(dependencyNames) = 0
           THEN /\ out' = printInfo(log, "No dependencies found in package.json")
                /\ call' = c
           ELSE IF Len(packagesToCheck) = 0
           THEN /\ out' = printSuccess(log, "No packages to check for size")
                /\ call' = c
           ELSE LET b == StartBatch([c EXCEPT !.packagesToCheck = packagesToCheck,
                                              !.batches = Batches(packagesToCheck)],
                                    1, log)
                IN  /\ out' = b.log
                    /\ call' = b.c
    /\ UNCHANGED results
    /\ HeavyFrame

\* heavyChecker.ts:72-111 and 154-196: the answer to one request arrives
\* and the callback of that package runs to its end.
HeavySettle ==
    /\ call.stage = "lookups"
    /\ \E i \in 1..Len(call.batchPromises), response \in Responses :
          /\ call.batchPromises[i].status = "pending"
          /\ LET packageName == call.batches[call.batch][i]
                 info == getBundlephobiaInfo(packageName, call.bundlephobiaCache,
                                             response)
             IN  /\ call' = [call EXCEPT
                                !.batchPromises[i] = BatchResult(packageName, info),
                                !.bundlephobiaCache = info.cache]
                 /\ out' = IF info.thrown
                           THEN Append(out, Msg("warning", "Could not check size"))
                           ELSE out
    /\ UNCHANGED << results, calls >>
    /\ HeavyFrame

\* heavyChecker.ts:115-136: Promise.all has resolved; the findings of the
\* batch are kept in the order of the batch, and after the last batch the
\* findings are handed to the reporter.
HeavyJoin ==
    /\ call.stage = "lookups"
    /\ \A i \in 1..Len(call.batchPromises) : call.batchPromises[i].status # "pending"
    /\ LET batchResults == call.batchPromises
           found == SelectSeq(batchResults, LAMBDA x : x.status = "heavy")
           heavyPackages == call.heavyPackages
                            \o [i \in 1..Len(found) |-> found[i].finding]
       IN  IF call.batch < Len(call.batches)
           THEN /\ call' = [call EXCEPT !.heavyPackages = heavyPackages,
                                        !.stage = "delay"]
                /\ UNCHANGED << results, out >>
           ELSE /\ call' = [call EXCEPT !.heavyPackages = heavyPackages,
                                        !.stage = "returned"]
                /\ IF Len(heavyPackages) > 0
                   THEN /\ results' = addResults(results, heavyPackages)
                        /\ out' = printInfo(out, "Found n heavy packages")
                   ELSE /\ out' = printSuccess(out, "No heavy packages found")
                        /\ UNCHANGED results
    /\ UNCHANGED calls
    /\ HeavyFrame

\* heavyChecker.ts:125-127 and 67-72: the delay has passed and the next
\* batch begins.
HeavyDelay ==
    /\ call.stage = "delay"
    /\ LET b == StartBatch(call, call.batch + 1, out)
       IN  /\ call' = b.c
           /\ out' = b.log
    /\ UNCHANGED << results, calls >>
    /\ HeavyFrame

\* The unused-package detector runs first, as in runAllDetectors.
UnusedBeforeHeavy ==
    /\ call.op = "none"
    /\ DetectCall

InitHeavy ==
    /\ manifest \in
          { ManifestAbsent,
            Manifest(Group(<< >>), NoGroup, NoGroup, NoGroup),
            Manifest(Group(<< Dep(N_lo, V1) >>), NoGroup, NoGroup, NoGroup),
            Manifest(Group(<< Dep(N_lo, V1), Dep(N_s_n, V1) >>),
                     Group(<< Dep(N_jest, V1), Dep(N_types_x, V1),
                              Dep(N_types_node, V1) >>),
                     NoGroup, NoGroup) }
    /\ fs \in { ("a.ts" :> File(c)) @@ ("b.js" :> Absent) :
                   c \in { << >>, << Import(N_lo), Require(N_jest) >> } }
    /\ cwdOk = TRUE
    /\ importCache = EmptyMap
    /\ packageUsageCache = EmptyMap
    /\ io = NoIo
    /\ results = << >>
    /\ out = << >>
    /\ pc = "idle"
    /\ run = NoRun
    /\ prev = NoPrev
    /\ runs = 0
    /\ call = NoHeavy
    /\ calls = 0
    /\ mainPc = "off"
    /\ options = NoOptions
    /\ exitCode = "running"

NextHeavy ==
    \/ UnusedBeforeHeavy
    \/ LibDetectStep
    \/ HeavyBegin
    \/ HeavySettle
    \/ HeavyJoin
    \/ HeavyDelay

SpecHeavy == InitHeavy /\ [][NextHeavy]_vars

\* Names with a finding of the given type in a list of findings.
NamesOfType(list, type) ==
    { list[i].packageName : i \in { k \in 1..Len(list) : list[k].type = type } }

\* Names with a truly-unused finding (type 'unused', not infrastructure).
TrulyUnusedNames(list) ==
    { list[i].packageName : i \in
        { k \in 1..Len(list) : list[k] = UnusedFinding(list[k].packageName) } }

InFlight == { i \in 1..Len(call.batchPromises) : call.batchPromises[i].status = "pending" }

NoDuplicates(list) == \A i, j \in 1..Len(list) : list[i] = list[j] => i = j

BatchingInvariant ==
    call.op = "detectHeavyPackages" =>
        /\ Cardinality(InFlight) <= 3
        /\ NoDuplicates(call.started)
        /\ IsPrefix(call.started, call.packagesToCheck)
        /\ call.stage = "returned" => /\ call.started = call.packagesToCheck
                                      /\ results = call.startResults \o call.heavyPackages
        /\ call.stage # "returned" => results = call.startResults

BatchingStep ==
    /\ call'.started # call.started => InFlight = {}
    /\ (call'.op = "detectHeavyPackages" /\ results' # results) =>
          /\ InFlight = {}
          /\ call.batch = Len(call.batches)
          /\ call'.stage = "returned"

\* C24: during detectHeavyPackages at most 3 size lookups are in flight, a
\* lookup starts only when no lookup of an earlier batch is still in flight,
\* each package to check is looked up exactly once, and the reporter gets
\* the heavy findings only after the last batch has completed.
C24_BatchedLookups == []BatchingInvariant /\ [][BatchingStep]_vars

\* A run of two batches has returned with a finding from each batch.
C24_Witness ==
    /\ call.op = "detectHeavyPackages" /\ call.stage = "returned"
    /\ Len(call.batches) = 2
    /\ \E f, g \in Range(call.heavyPackages) :
          /\ f.packageName \in Range(call.batches[1])
          /\ g.packageName \in Range(call.batches[2])

-----------------------------------------------------------------------------
(* The order of the detectors in one invocation                             *)

\* The detectors that have started, in the order of their first messages.
StartedDetectors ==
    LET starts == SelectSeq(out, LAMBDA m :
                     m.kind = "info" /\ \E d \in DOMAIN StartMessage :
                                            m.text = StartMessage[d])
    IN  [i \in 1..Len(starts) |->
            CHOOSE d \in DOMAIN StartMessage : StartMessage[d] = starts[i].text]

DetectorOrder == << "unused", "outdated", "duplicate", "heavy" >>

\* The detectors the arguments ask for: all four with no argument or with
\* --all, else those whose flag is given.
AskedFor(args) ==
    SelectSeq(DetectorOrder, LAMBDA d :
        \/ args = {} \/ "--all" \in args
        \/ d = "unused" /\ "--unused" \in args
        \/ d = "outdated" /\ "--outdated" \in args
        \/ d = "duplicate" /\ "--duplicates" \in args
        \/ d = "heavy" /\ "--heavy" \in args)

\* The arguments of the invocation, read back from the parsed options.
GivenArgs ==
    { a \in UNION ArgSets : \E args \in ArgSets :
          a \in args /\ parseArguments(args) = options }

ReportedOnceAtEnd ==
    /\ Len(out) > 0
    /\ out[Len(out)].kind = "report"
    /\ \A i \in 1..(Len(out) - 1) : out[i].kind # "report"

SequencedRun ==
    /\ mainPc = "unused" => results = << >>
    /\ mainPc \notin { "off", "unused", "awaitUnused" } => pc = "idle"
    /\ mainPc # "exited" => \A i \in 1..Len(out) : out[i].kind # "report"

\* C25 as stated: with no argument or with --all the four detectors run in
\* the order unused, outdated, duplicates, heavy, otherwise exactly those
\* whose flags were given, in that order, each after the one before it has
\* finished; the results are cleared before the first and printResults is
\* called once after the last.
C25_DetectorsInOrder ==
    /\ SequencedRun
    /\ mainPc = "exited" => /\ StartedDetectors = AskedFor(GivenArgs)
                            /\ ReportedOnceAtEnd

\* C25 amended: as stated when none of --help, -h and --github is among the
\* arguments; with one of them no detector runs, the results are not
\* touched and printResults is not called.
C25_DetectorsInOrderUnlessHelp ==
    /\ SequencedRun
    /\ mainPc = "exited" =>
          IF options.help \/ options.github
          THEN /\ StartedDetectors = << >>
               /\ \A i \in 1..Len(out) : out[i].kind # "report"
               /\ results = << >>
          ELSE /\ StartedDetectors = AskedFor(GivenArgs)
               /\ ReportedOnceAtEnd

\* An invocation with two flags has ended: the unused detector and then the
\* heavy detector ran and left findings.
C25_Witness ==
    /\ mainPc = "exited"
    /\ StartedDetectors = << "unused", "heavy" >>
    /\ NamesOfType(results, "unused") # {} /\ NamesOfType(results, "heavy") # {}

-----------------------------------------------------------------------------
(* GitHubCLI.createUpdatePR (githubCLI.ts:12-84) and the pull request       *)
(* GitHubIntegration creates (githubIntegration.ts:42-98, 223-273)          *)

Labels    == { << >>, << "dependencies" >>, << "dependencies", "security" >> }
Reviewers == { << >>, << "reviewer1" >> }

\* The Partial<GitHubConfig> objects main hands over (bin/index.ts:124-132):
\* a field that is not set is absent from the record's domain.
Configs ==
    { [token |-> t, owner |-> "owner", repo |-> r, baseBranch |-> b,
       prLabels |-> l, prReviewers |-> v] :
         t \in { "", "ghp" }, r \in { "", "repo" }, b \in { "", "develop" },
         l \in Labels, v \in Reviewers }

\* githubCLI.ts:15-33: the configuration init builds for the integration.
GitHubCLI_init(config) ==
    IF config.token = "" THEN [ok |-> FALSE, error |-> "GitHub token is required"]
    ELSE IF config.owner = "" \/ config.repo = ""
    THEN [ok |-> FALSE, error |-> "Repository owner and name are required"]
    ELSE [ok |-> TRUE,
          githubConfig |-> [token |-> config.token, owner |-> config.owner,
                            repo |-> config.repo,
                            baseBranch |-> IF config.baseBranch = "" THEN "main"
                                           ELSE config.baseBranch,
                            autoCreatePR |-> TRUE,
                            prTitle |-> "undefined", prBody |-> "undefined"]]

\* githubIntegration.ts:42-51: the defaults, overridden by what config holds.
GitHubIntegration(config) ==
    config @@ [baseBranch |-> "main", autoCreatePR |-> TRUE,
               prTitle |-> "chore: update dependencies",
               prBody |-> "Automated dependency updates by package-detector",
               prLabels |-> << >>, prReviewers |-> << >>]

NoGitHub ==
    [op |-> "none", stage |-> "returned", passed |-> << >>, config |-> << >>,
     pr |-> FALSE, labels |-> << >>, reviewers |-> << >>, success |-> FALSE]

GitHubFrame ==
    UNCHANGED << manifest, fs, cwdOk, importCache, packageUsageCache, io, results,
                 pc, run, prev, runs, calls, mainPc, options, exitCode >>

\* githubCLI.ts:59-61 and 12-38: createUpdatePR calls init, which returns
\* null for a missing token or repository and else builds the integration.
CreateUpdatePR ==
    /\ call.stage = "returned"
    /\ \E config \in Configs :
          LET i == GitHubCLI_init(config)
              c == [NoGitHub EXCEPT !.op = "createUpdatePR", !.passed = config]
          IN  IF ~i.ok
              THEN /\ call' = c
                   /\ out' = printError(<< >>, i.error)
              ELSE /\ call' = [c EXCEPT !.stage = "connect",
                                        !.config = GitHubIntegration(i.githubConfig)]
                   /\ out' = printInfo(<< >>, "Testing GitHub connection...")
    /\ GitHubFrame

\* githubCLI.ts:39-53 and 64-65: the repository answers or the request fails.
GitHubConnect ==
    /\ call.stage = "connect"
    /\ \E reachable, hasWriteAccess \in BOOLEAN :
          IF reachable
          THEN /\ call' = [call EXCEPT !.stage = "analyze"]
               /\ out' = printInfo(
                            IF hasWriteAccess
                            THEN printSuccess(out, "GitHub connection successful")
                            ELSE Append(printSuccess(out, "GitHub connection successful"),
                                        Msg("warning", "No write access to repository")),
                            "Starting automated dependency update process...")
          ELSE /\ call' = [call EXCEPT !.stage = "returned"]
               /\ out' = printError(out, "Failed to initialize GitHub integration")
    /\ GitHubFrame

\* githubIntegration.ts:63-98 and 174-203: nothing is outdated, or the
\* branch is made and pushed, or making it fails.
AnalyzeAndCreatePR ==
    /\ call.stage = "analyze"
    /\ \E outcome \in { "up to date", "pushed", "failed" } :
          /\ call' = [call EXCEPT !.stage = IF outcome = "pushed" THEN "create"
                                            ELSE "returned",
                                  !.success = outcome = "up to date"]
          /\ out' = IF outcome = "up to date"
                    THEN printSuccess(out, "All packages are up to date!")
                    ELSE IF outcome = "pushed"
                    THEN printInfo(out, "Creating pull request...")
                    ELSE printError(out, "GitHub integration failed")
    /\ GitHubFrame

\* githubIntegration.ts:230-240 and 269-272
CreatePullRequest ==
    /\ call.stage = "create"
    /\ \E created \in BOOLEAN :
          IF created
          THEN /\ call' = [call EXCEPT !.stage = "labels", !.pr = TRUE]
               /\ out' = printSuccess(out, "Pull request created")
          ELSE /\ call' = [call EXCEPT !.stage = "returned"]
               /\ out' = printError(out, "GitHub integration failed")
    /\ GitHubFrame

\* githubIntegration.ts:243-251 and 269-272
AddLabels ==
    /\ call.stage = "labels"
    /\ IF Len(call.config["prLabels"]) > 0
       THEN \E added \in BOOLEAN :
               IF added
               THEN /\ call' = [call EXCEPT !.stage = "reviewers",
                                            !.labels = call.config["prLabels"]]
                    /\ out' = printInfo(out, "Labels added")
               ELSE /\ call' = [call EXCEPT !.stage = "returned"]
                    /\ out' = printError(out, "GitHub integration failed")
       ELSE /\ call' = [call EXCEPT !.stage = "reviewers"]
            /\ UNCHANGED out
    /\ GitHubFrame

\* githubIntegration.ts:253-267, 269-272 and githubCLI.ts:69-79
RequestReviewers ==
    /\ call.stage = "reviewers"
    /\ IF Len(call.config["prReviewers"]) > 0
       THEN \E requested \in BOOLEAN :
               IF requested
               THEN /\ call' = [call EXCEPT !.stage = "returned", !.success = TRUE,
                                            !.reviewers = call.config["prReviewers"]]
                    /\ out' = printSuccess(printInfo(out, "Reviewers requested"),
                                           "Pull request created successfully!")
               ELSE /\ call' = [call EXCEPT !.stage = "returned"]
                    /\ out' = printError(out, "GitHub integration failed")
       ELSE /\ call' = [call EXCEPT !.stage = "returned", !.success = TRUE]
            /\ out' = printSuccess(out, "Pull request created successfully!")
    /\ GitHubFrame

InitGitHub ==
    /\ manifest = ManifestAbsent
    /\ fs = [p \in Paths |-> Absent]
    /\ cwdOk = TRUE
    /\ importCache = EmptyMap
    /\ packageUsageCache = EmptyMap
    /\ io = NoIo
    /\ results = << >>
    /\ out = << >>
    /\ pc = "idle"
    /\ run = NoRun
    /\ prev = NoPrev
    /\ runs = 0
    /\ call = NoGitHub
    /\ calls = 0
    /\ mainPc = "off"
    /\ options = NoOptions
    /\ exitCode = "running"

NextGitHub ==
    \/ CreateUpdatePR
    \/ GitHubConnect
    \/ AnalyzeAndCreatePR
    \/ CreatePullRequest
    \/ AddLabels
    \/ RequestReviewers

SpecGitHub == InitGitHub /\ [][NextGitHub]_vars

\* C26 as stated: when createUpdatePR is given labels or reviewers and a pull
\* request is created, the labels are added to it and the reviewers are
\* requested on it once the call has returned.
C26_LabelsAndReviewersApplied ==
    (call.op = "createUpdatePR" /\ call.stage = "returned" /\ call.pr) =>
        /\ call.labels = call.passed.prLabels
        /\ call.reviewers = call.passed.prReviewers

-----------------------------------------------------------------------------
(* The batch form of the resolver against the single form                   *)

\* C27: from empty caches batchCheckPackageUsage(names, files) has exactly one
\* entry per name, the verdict of each name p is what isPackageUsed(p, files)
\* returns from empty caches, and extractImports is called once per listed
\* file, each file being read once, however many names there are.
C27_BatchEqualsSingle ==
    (call.op = "batchCheckPackageUsage" /\ call.fresh) =>
        /\ DOMAIN call.results = Range(call.packageNames)
        /\ \A p \in Range(call.packageNames) :
              call.results[p] =
                 isPackageUsed(p, call.files, EmptyMap, EmptyMap, Disk).result
        /\ Len(call.log) = Len(call.files)
        /\ \A j \in 1..Len(call.log) : call.log[j].file = call.files[j]
        /\ \A f \in Paths : io.reads[f] = IF f \in Range(call.files) THEN 1 ELSE 0

\* A batch of three names over two files, with a name used through a
\* sub-path reference and a name not used.
C27_Witness ==
    /\ call.op = "batchCheckPackageUsage" /\ call.fresh
    /\ Len(call.packageNames) = 3 /\ Len(call.files) = 2
    /\ \E p, q \in Range(call.packageNames) :
          /\ call.results[p] /\ p \notin RefsIn(call.files)
          /\ ~call.results[q]
    /\ \A f \in Range(call.files) : fs[f].st = "file"

-----------------------------------------------------------------------------
(* Several resolver calls with different file lists and no clear between    *)

RepeatNames     == { N_lo, N_s_n }
RepeatFileLists == { << >>, << "a.ts" >>, << "b.js" >>, << "a.ts", "b.js" >> }

\* utils.ts:247-285 called by a user of the library, any number of times.
IsPackageUsedAgain ==
    /\ pc = "idle"
    /\ calls < MaxLookups
    /\ \E p \in RepeatNames, files \in RepeatFileLists :
          LET r == isPackageUsed(p, files, importCache, packageUsageCache, Disk)
          IN  /\ importCache' = r.ic
              /\ packageUsageCache' = r.uc
              /\ io' = Observe(io, r.log)
              /\ call' = [op |-> "isPackageUsed", packageNames |-> << p >>,
                          files |-> files, results |-> (p :> r.result),
                          fresh |-> CachesEmpty, log |-> r.log]
    /\ calls' = calls + 1
    /\ UNCHANGED << manifest, fs, cwdOk, results, out, pc, run, prev, runs,
                    mainPc, options, exitCode >>

\* utils.ts:290-335 called by a user of the library, any number of times.
BatchCheckAgain ==
    /\ pc = "idle"
    /\ calls < MaxLookups
    /\ \E files \in RepeatFileLists :
          LET r == batchCheckPackageUsage(<< N_lo, N_s_n >>, files, importCache,
                                          packageUsageCache, Disk)
          IN  /\ importCache' = r.ic
              /\ packageUsageCache' = r.uc
              /\ io' = Observe(io, r.log)
              /\ call' = [op |-> "batchCheckPackageUsage",
                          packageNames |-> << N_lo, N_s_n >>,
                          files |-> files, results |-> r.results,
                          fresh |-> CachesEmpty, log |-> r.log]
    /\ calls' = calls + 1
    /\ UNCHANGED << manifest, fs, cwdOk, results, out, pc, run, prev, runs,
                    mainPc, options, exitCode >>

InitRepeat ==
    /\ manifest = Manifest(NoGroup, NoGroup, NoGroup, NoGroup)
    /\ fs \in { ("a.ts" :> x) @@ ("b.js" :> y) :
                   x \in { File(<< Import(N_lo) >>), File(<< Import(N_s_n) >>) },
                   y \in { File(<< >>), File(<< Require(N_lo) >>) } }
    /\ cwdOk = TRUE
    /\ importCache = EmptyMap
    /\ packageUsageCache = EmptyMap
    /\ io = NoIo
    /\ results = << >>
    /\ out = << >>
    /\ pc = "idle"
    /\ run = NoRun
    /\ prev = NoPrev
    /\ runs = 0
    /\ call = NoCall
    /\ calls = 0
    /\ mainPc = "off"
    /\ options = NoOptions
    /\ exitCode = "running"

NextRepeat ==
    \/ IsPackageUsedAgain
    \/ BatchCheckAgain
    \/ ClearCachesCall

SpecRepeat == InitRepeat /\ [][NextRepeat]_vars

\* C28 as stated: with no cache clear in between, every verdict a call of
\* isPackageUsed or batchCheckPackageUsage returns is the matching rule
\* evaluated on the file list passed to that call.
C28_VerdictForPassedList ==
    call.op \in { "isPackageUsed", "batchCheckPackageUsage" } =>
        \A p \in Range(call.packageNames) :
            call.results[p] = (\E ref \in RefsIn(call.files) : MatchRule(p, ref))

-----------------------------------------------------------------------------
(* getPackageUsageAnalysis (analyzer.ts:141-194)                            *)

\* analyzer.ts:161-170: the imports of the listed files that match one name,
\* counted over the lists extractImports returned.
RECURSIVE CountMatches(_, _, _)
CountMatches(packageName, log, j) ==
    IF j > Len(log) THEN 0
    ELSE Len(SelectSeq(log[j].imports, LAMBDA imp :
                \/ imp = packageName
                \/ startsWith(imp, packageName \o << "/" >>)
                \/ startsWith(packageName, << "@" >>) /\ startsWith(imp, packageName)))
         + CountMatches(packageName, log, j + 1)

\* analyzer.ts:157-185: every name is counted over every file; extractImports
\* answers from the import cache where it can.
RECURSIVE AnalysisLoop(_, _, _, _, _)
AnalysisLoop(dependencyNames, i, projectFiles, acc, disk) ==
    IF i > Len(dependencyNames) THEN acc
    ELSE LET packageName == dependencyNames[i]
             x == ExtractAll(projectFiles, 1,
                             [allImports |-> {}, ic |-> acc.ic, log |-> << >>], disk)
             importCount == CountMatches(packageName, x.log, 1)
             isUsed == importCount > 0
             isInfrastructure == isInfrastructurePackage(packageName).isInfra
         IN  AnalysisLoop(dependencyNames, i + 1, projectFiles,
                [acc EXCEPT
                    !.ic = x.ic,
                    !.log = @ \o x.log,
                    !.usedPackages = IF isUsed THEN Append(@, packageName) ELSE @,
                    !.infrastructurePackages =
                        IF ~isUsed /\ isInfrastructure THEN Append(@, packageName)
                        ELSE @,
                    !.unusedPackages =
                        IF ~isUsed /\ ~isInfrastructure THEN Append(@, packageName)
                        ELSE @,
                    !.usageStats = (packageName :>
                                      [used |-> isUsed, importCount |-> importCount,
                                       isInfrastructure |-> isInfrastructure]) @@ @],
                disk)

NoAnalysis(ic) ==
    [thrown |-> TRUE, totalDependencies |-> 0, usedPackages |-> << >>,
     unusedPackages |-> << >>, infrastructurePackages |-> << >>,
     usageStats |-> EmptyMap, ic |-> ic, log |-> << >>]

\* analyzer.ts:141-194: no try block, so a failure of getAllDependencies is
\* thrown to the caller; the caches are used as they are.
getPackageUsageAnalysis(ic, disk) ==
    LET r == readPackageJson
        dependencyNames == NamesOf(getAllDependencies(r.pkg))
    IN  IF ~r.ok THEN NoAnalysis(ic)
        ELSE AnalysisLoop(dependencyNames, 1, findProjectFilesInCwd,
                          [NoAnalysis(ic) EXCEPT
                              !.thrown = FALSE,
                              !.totalDependencies = Len(dependencyNames)],
                          disk)

\* getPackageUsageAnalysis called by a user of the library; the record keeps
\* the file tree the call saw.
GetPackageUsageAnalysisCall ==
    /\ pc = "idle"
    /\ calls < MaxCalls
    /\ LET a == getPackageUsageAnalysis(importCache, Disk)
       IN  /\ importCache' = a.ic
           /\ io' = Observe(io, a.log)
           /\ call' = [op |-> "getPackageUsageAnalysis", thrown |-> a.thrown,
                       usedPackages |-> a.usedPackages,
                       unusedPackages |-> a.unusedPackages,
                       infrastructurePackages |-> a.infrastructurePackages,
                       usageStats |-> a.usageStats, fs |-> fs]
    /\ calls' = calls + 1
    /\ UNCHANGED << manifest, fs, cwdOk, packageUsageCache, results, out, pc, run,
                    prev, runs, mainPc, options, exitCode >>

AnalysisContents == { << >>, << Import(N_lo), Require(N_jest) >> }

\* A source file is rewritten between calls.
RewriteSource ==
    /\ pc = "idle"
    /\ \E p \in Paths, c \in AnalysisContents :
          /\ fs[p] # File(c)
          /\ fs' = [fs EXCEPT ![p] = File(c)]
    /\ prev' = [prev EXCEPT !.same = FALSE]
    /\ UNCHANGED << manifest, cwdOk, importCache, packageUsageCache, io, results, out,
                    pc, run, runs, call, calls, mainPc, options, exitCode >>

NextAnalysis ==
    \/ DetectCall
    \/ LibDetectStep
    \/ RewriteSource
    \/ GetPackageUsageAnalysisCall

InitAnalysis ==
    /\ manifest \in
          { ManifestAbsent,
            Manifest(Group(<< Dep(N_lo, V1), Dep(N_s_n, V1) >>),
                     Group(<< Dep(N_jest, V1), Dep(N_types_x, V1),
                              Dep(N_types_node, V1) >>),
                     NoGroup, NoGroup) }
    /\ fs \in { ("a.ts" :> File(c)) @@ ("b.js" :> x) :
                   c \in AnalysisContents, x \in { Absent, Unreadable } }
    /\ cwdOk = TRUE
    /\ importCache = EmptyMap
    /\ packageUsageCache = EmptyMap
    /\ io = NoIo
    /\ results = << >>
    /\ out = << >>
    /\ pc = "idle"
    /\ run = NoRun
    /\ prev = NoPrev
    /\ runs = 0
    /\ call = NoCall
    /\ calls = 0
    /\ mainPc = "off"
    /\ options = NoOptions
    /\ exitCode = "running"

SpecAnalysis == InitAnalysis /\ [][NextAnalysis]_vars

\* What detectUnusedPackages reports for the manifest and the files on disk:
\* the two lists its loop builds from the verdicts of a batch over cleared
\* caches.
DetectorPartition ==
    LET dependencyNames == NamesOf(getAllDependencies(manifest))
    IN  Classify(dependencyNames,
                 batchCheckPackageUsage(dependencyNames, findProjectFilesInCwd,
                                        EmptyMap, EmptyMap, Disk).results)

\* C29 as stated: whatever runs and file changes came before, a call of
\* getPackageUsageAnalysis puts every declared package in exactly one of its
\* three lists, and the lists are the partition detectUnusedPackages makes
\* of the same manifest and files: unused = the truly-unused findings,
\* infrastructure = the infrastructure findings, used = the rest.
C29_AnalysisAgreesWithDetector ==
    (call.op = "getPackageUsageAnalysis" /\ ~call.thrown /\ call.fs = fs) =>
        LET used == Range(call.usedPackages)
            unused == Range(call.unusedPackages)
            infra == Range(call.infrastructurePackages)
            d == DetectorPartition
        IN  /\ used \cup unused \cup infra = DeclaredNames(manifest)
            /\ used \cap unused = {} /\ used \cap infra = {} /\ unused \cap infra = {}
            /\ Len(call.usedPackages) + Len(call.unusedPackages)
                  + Len(call.infrastructurePackages)
               = Cardinality(DeclaredNames(manifest))
            /\ unused = { d.unused[k].packageName : k \in 1..Len(d.unused) }
            /\ infra = { d.infra[k].packageName : k \in 1..Len(d.infra) }

-----------------------------------------------------------------------------
(* The one list a run hands to the reporter                                 *)

\* A list without the later occurrences of its elements.
RECURSIVE FirstOccurrences(_)
FirstOccurrences(list) ==
    IF list = << >> THEN << >>
    ELSE LET front == FirstOccurrences(SubSeq(list, 1, Len(list) - 1))
             last == list[Len(list)]
         IN  IF last \in Range(front) THEN front ELSE Append(front, last)

\* The declared names in the order the manifest declares them: group after
\* group, a name declared twice standing where it is declared first.
DeclarationOrder ==
    FirstOccurrences(NamesOf(manifest.dependencies.entries)
                     \o NamesOf(manifest.devDependencies.entries)
                     \o NamesOf(manifest.peerDependencies.entries)
                     \o NamesOf(manifest.optionalDependencies.entries))

\* C30: a run of detectUnusedPackages calls addResults at most once, and not
\* at all when every declared package is used; the list it passes holds the
\* truly-unused findings in manifest declaration order and after them the
\* infrastructure findings in manifest declaration order.
C30_OneOrderedAddResults ==
    pc = "done" =>
        LET notUsed(n) == ~run.usageResults[n]
            isInfra(n) == isInfrastructurePackage(n).isInfra
            unused == SelectSeq(DeclarationOrder, LAMBDA n : notUsed(n) /\ ~isInfra(n))
            infra == SelectSeq(DeclarationOrder, LAMBDA n : notUsed(n) /\ isInfra(n))
        IN  /\ run.addCalls <= 1
            /\ results = run.startResults \o run.findings
            /\ run.outcome # "ok" => run.addCalls = 0 /\ run.findings = << >>
            /\ run.outcome = "ok" =>
                  /\ run.addCalls = 0 <=> \A n \in DeclaredNames(manifest) : ~notUsed(n)
                  /\ run.findings =
                        [k \in 1..Len(unused) |-> UnusedFinding(unused[k])]
                        \o [k \in 1..Len(infra) |->
                               InfraFinding(infra[k],
                                            isInfrastructurePackage(infra[k]).reason)]

\* A run whose list holds a truly-unused finding after which comes the
\* finding of an infrastructure package that the manifest declares earlier.
C30_Witness ==
    /\ RunSucceeded /\ run.addCalls = 1
    /\ \E i, j \in 1..Len(DeclarationOrder) :
          /\ i < j
          /\ run.findings[Len(run.findings)].packageName = DeclarationOrder[i]
          /\ run.findings[Len(run.findings) - 1] = UnusedFinding(DeclarationOrder[j])

====
